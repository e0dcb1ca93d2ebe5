----------------------------- MODULE MonitorProofs -----------------------------
(***************************************************************************)
(* Theorems about mutex.h for any number of threads, mutexes and spins,    *)
(* and about cond.h on top of it, for any number of values of the counter, *)
(* under the most general client of MonitorClients.                        *)
(***************************************************************************)
EXTENDS MonitorClients, TLAPS

-----------------------------------------------------------------------------
(* PART ONE: mutex.h *)


-----------------------------------------------------------------------------
(* The inductive invariants.  None of the three safety properties is        *)
(* inductive alone: LockInv strengthens MutualExclusion, ViewInv            *)
(* strengthens OwnerSeesWrites (and needs LockInv), SleepInv strengthens    *)
(* SleepersAreRemembered.                                                   *)

\* The LOCKED flag is set exactly while somebody owns the mutex.
LockedIsOwned ==
    \A m \in Mutexes : LOCKED \in state[m] <=> owners[m] # {}

\* mutex_unlock is called by an owner, who stays the owner up to its exchange.
UnlockerOwns ==
    \A t \in Threads : op[t] = "unlock_exchange" => t \in owners[arg[t]]

\* The word of a free mutex carries the last writes.
FreeIsPublished ==
    \A m \in Mutexes : LOCKED \notin state[m] => pub[m]

\* A thread in a queue of the kernel waits for the mutex it is locking.
SleeperIsLocking ==
    \A t \in Threads : \A w \in Words :
        t \in queue[w] => op[t] = "asleep" /\ w = StateWord(arg[t])

\* Ownership, the flag and the callers of mutex_unlock agree.
LockInv ==
    /\ LockedIsOwned
    /\ MutualExclusion
    /\ UnlockerOwns

-----------------------------------------------------------------------------
(* Types *)

\* The initial state has the right types.
LEMMA InitTypeOK == MutexInit => MutexTypeOK
BY MutexSpinsAssumption DEF MutexInit, MutexTypeOK, FutexInit, Words, LOCKED, SLEEPING

\* Taking the lock keeps the types.
LEMMA AcquiredTypeOK ==
    ASSUME MutexTypeOK, NEW t \in Threads, Acquired(t)
    PROVE  /\ owners' \in [Mutexes -> SUBSET Threads]
           /\ view' \in [Mutexes -> SUBSET Threads]
           /\ pub' \in [Mutexes -> BOOLEAN]
           /\ spins' \in [Threads -> 0 .. MUTEX_SPINS - 1]
           /\ op' \in [Threads -> MutexOps \cup {"idle"}]
BY MutexSpinsAssumption DEF MutexTypeOK, Acquired

\* A failed attempt keeps the types: the counter of the spin loop stays below
\* MUTEX_SPINS.
LEMMA TrylockFailedTypeOK ==
    ASSUME MutexTypeOK, NEW t \in Threads, TrylockFailed(t)
    PROVE  /\ owners' \in [Mutexes -> SUBSET Threads]
           /\ view' \in [Mutexes -> SUBSET Threads]
           /\ pub' \in [Mutexes -> BOOLEAN]
           /\ spins' \in [Threads -> 0 .. MUTEX_SPINS - 1]
           /\ op' \in [Threads -> MutexOps \cup {"idle"}]
BY MutexSpinsAssumption DEF MutexTypeOK, TrylockFailed, MutexOps

\* Every step keeps the types.
LEMMA NextTypeOK == MutexTypeOK /\ [MutexNext]_mutexVars => MutexTypeOK'
<1> SUFFICES ASSUME MutexTypeOK, [MutexNext]_mutexVars PROVE MutexTypeOK'
  OBVIOUS
<1>1. ASSUME NEW t \in Threads, MutexStep(t) PROVE MutexTypeOK'
  <2>1. CASE TrylockLoad(t)
    BY <2>1, TrylockFailedTypeOK DEF MutexTypeOK, TrylockLoad, MutexOps
  <2>2. CASE TrylockFetchOr(t)
    BY <2>2, TrylockFailedTypeOK, AcquiredTypeOK
    DEF MutexTypeOK, TrylockFetchOr, LOCKED, SLEEPING
  <2>3. CASE LockExchange(t)
    BY <2>3, AcquiredTypeOK DEF MutexTypeOK, LockExchange, MutexOps, LOCKED, SLEEPING
  <2>4. CASE LockFutexWait(t)
    BY <2>4 DEF MutexTypeOK, LockFutexWait, FutexWait, MutexOps, StateWord, Words
  <2>5. CASE LockFutexReturn(t)
    BY <2>5 DEF MutexTypeOK, LockFutexReturn, MutexOps
  <2>6. CASE UnlockExchange(t)
    BY <2>6 DEF MutexTypeOK, UnlockExchange, MutexOps
  <2>7. CASE UnlockWake(t)
    BY <2>7, ZenonT(30) DEF MutexTypeOK, UnlockWake, FutexWake, MutexOps, StateWord, Words
  <2> QED
    BY <1>1, <2>1, <2>2, <2>3, <2>4, <2>5, <2>6, <2>7 DEF MutexStep
<1>2. ASSUME NEW t \in Threads, SpuriousReturn(t) PROVE MutexTypeOK'
  BY <1>2 DEF MutexTypeOK, SpuriousReturn, FutexSpurious
<1>3. ASSUME NEW t \in Threads, NEW m \in Mutexes, ClientLock(t, m) PROVE MutexTypeOK'
  BY <1>3 DEF MutexTypeOK, ClientLock, MutexLock, MutexOps
<1>4. ASSUME NEW t \in Threads, NEW m \in Mutexes, ClientUnlock(t, m) PROVE MutexTypeOK'
  BY <1>4 DEF MutexTypeOK, ClientUnlock, MutexUnlock, MutexOps
<1>5. CASE UNCHANGED mutexVars
  BY <1>5 DEF MutexTypeOK, mutexVars
<1> QED
  BY <1>1, <1>2, <1>3, <1>4, <1>5 DEF MutexNext

\* mutex.h keeps the types of its variables; in particular the word of a mutex
\* never has SLEEPING without LOCKED.
THEOREM TypeCorrect == MutexSpec => []MutexTypeOK
BY InitTypeOK, NextTypeOK, PTL DEF MutexSpec

-----------------------------------------------------------------------------
(* Mutual exclusion *)

\* Initially every mutex is free.
LEMMA InitLockInv == MutexInit => LockInv
BY DEF MutexInit, LockInv, LockedIsOwned, MutualExclusion, UnlockerOwns

\* Taking the lock of a word without LOCKED makes t its only owner.
LEMMA AcquiredLockInv ==
    ASSUME MutexTypeOK, LockInv, NEW t \in Threads, Acquired(t),
           LOCKED \notin state[arg[t]],
           LOCKED \in state'[arg[t]],
           \A m \in Mutexes : m # arg[t] => state'[m] = state[m],
           arg' = arg, ret' = ret
    PROVE  LockInv'
<1>1. owners[arg[t]] = {} /\ owners' = [owners EXCEPT ![arg[t]] = {t}]
  BY DEF MutexTypeOK, LockInv, LockedIsOwned, Acquired
<1>2. LockedIsOwned'
  BY <1>1 DEF MutexTypeOK, LockInv, LockedIsOwned
<1>3. MutualExclusion'
  BY <1>1 DEF MutexTypeOK, LockInv, MutualExclusion
<1>4. UnlockerOwns'
  BY <1>1 DEF MutexTypeOK, LockInv, UnlockerOwns, Acquired
<1> QED
  BY <1>2, <1>3, <1>4 DEF LockInv

\* A step that leaves the flags LOCKED and the owners alone, and starts no
\* mutex_unlock without owning the mutex.
LEMMA OtherLockInv ==
    ASSUME LockInv,
           \A m \in Mutexes : LOCKED \in state'[m] <=> LOCKED \in state[m],
           owners' = owners,
           \A t \in Threads : op'[t] = "unlock_exchange" =>
               \/ op[t] = "unlock_exchange" /\ arg'[t] = arg[t]
               \/ t \in owners[arg'[t]]
    PROVE  LockInv'
BY DEF LockInv, LockedIsOwned, MutualExclusion, UnlockerOwns

\* Every step keeps the flag LOCKED and the owners in agreement.
LEMMA NextLockInv == MutexTypeOK /\ LockInv /\ [MutexNext]_mutexVars => LockInv'
<1> SUFFICES ASSUME MutexTypeOK, LockInv, [MutexNext]_mutexVars PROVE LockInv'
  OBVIOUS
<1>1. ASSUME NEW t \in Threads, MutexStep(t) PROVE LockInv'
  <2>1. CASE TrylockLoad(t)
    BY <2>1, OtherLockInv DEF MutexTypeOK, TrylockLoad, TrylockFailed
  <2>2. CASE TrylockFetchOr(t)
    <3>1. CASE LOCKED \in state[arg[t]]
      BY <2>2, <3>1, OtherLockInv DEF MutexTypeOK, TrylockFetchOr, TrylockFailed
    <3>2. CASE LOCKED \notin state[arg[t]]
      BY <2>2, <3>2, AcquiredLockInv DEF MutexTypeOK, TrylockFetchOr
    <3> QED
      BY <3>1, <3>2
  <2>3. CASE LockExchange(t)
    <3>1. CASE LOCKED \in state[arg[t]]
      BY <2>3, <3>1, OtherLockInv DEF MutexTypeOK, LockExchange
    <3>2. CASE LOCKED \notin state[arg[t]]
      BY <2>3, <3>2, AcquiredLockInv DEF MutexTypeOK, LockExchange
    <3> QED
      BY <3>1, <3>2
  <2>4. CASE LockFutexWait(t)
    BY <2>4, OtherLockInv DEF MutexTypeOK, LockFutexWait
  <2>5. CASE LockFutexReturn(t)
    BY <2>5, OtherLockInv DEF MutexTypeOK, LockFutexReturn
  <2>6. CASE UnlockExchange(t)
    <3>1. owners[arg[t]] = {t} /\ arg[t] \in Mutexes
      BY <2>6 DEF MutexTypeOK, LockInv, MutualExclusion, UnlockerOwns, UnlockExchange
    <3>2. owners' = [owners EXCEPT ![arg[t]] = {}]
      BY <2>6, <3>1 DEF MutexTypeOK, UnlockExchange
    <3>3. state' = [state EXCEPT ![arg[t]] = {}]
      BY <2>6 DEF UnlockExchange
    <3>4. LockedIsOwned'
      BY <3>1, <3>2, <3>3 DEF MutexTypeOK, LockInv, LockedIsOwned
    <3>5. MutualExclusion'
      BY <3>1, <3>2 DEF MutexTypeOK, LockInv, MutualExclusion
    <3>6. op'[t] # "unlock_exchange" /\ arg' = arg
          /\ \A u \in Threads \ {t} : op'[u] = op[u]
      BY <2>6 DEF MutexTypeOK, UnlockExchange
    <3>7. UnlockerOwns'
      BY <3>1, <3>2, <3>6 DEF MutexTypeOK, LockInv, UnlockerOwns
    <3> QED
      BY <3>4, <3>5, <3>7 DEF LockInv
  <2>7. CASE UnlockWake(t)
    BY <2>7, OtherLockInv DEF MutexTypeOK, UnlockWake
  <2> QED
    BY <1>1, <2>1, <2>2, <2>3, <2>4, <2>5, <2>6, <2>7 DEF MutexStep
<1>2. ASSUME NEW t \in Threads, SpuriousReturn(t) PROVE LockInv'
  BY <1>2, OtherLockInv DEF SpuriousReturn
<1>3. ASSUME NEW t \in Threads, NEW m \in Mutexes, ClientLock(t, m) PROVE LockInv'
  BY <1>3, OtherLockInv DEF MutexTypeOK, ClientLock, MutexLock
<1>4. ASSUME NEW t \in Threads, NEW m \in Mutexes, ClientUnlock(t, m) PROVE LockInv'
  BY <1>4, OtherLockInv DEF MutexTypeOK, ClientUnlock, MutexUnlock
<1>5. CASE UNCHANGED mutexVars
  BY <1>5, OtherLockInv DEF mutexVars
<1> QED
  BY <1>1, <1>2, <1>3, <1>4, <1>5 DEF MutexNext

\* Two threads never own a mutex together.
THEOREM MutexExcludes == MutexSpec => []MutualExclusion
<1>1. MutexInit => MutexTypeOK /\ LockInv
  BY InitTypeOK, InitLockInv
<1>2. MutexTypeOK /\ LockInv /\ [MutexNext]_mutexVars => (MutexTypeOK /\ LockInv)'
  BY NextTypeOK, NextLockInv
<1>3. LockInv => MutualExclusion
  BY DEF LockInv
<1> QED
  BY <1>1, <1>2, <1>3, PTL DEF MutexSpec

-----------------------------------------------------------------------------
(* Memory order *)

\* The writes of the last critical section travel with the word.
ViewInv == FreeIsPublished /\ OwnerSeesWrites

\* Initially every thread sees everything, and every word carries it.
LEMMA InitViewInv == MutexInit => ViewInv
BY DEF MutexInit, ViewInv, FreeIsPublished, OwnerSeesWrites

\* A step that takes no lock and gives none up.
LEMMA OtherViewInv ==
    ASSUME ViewInv, UNCHANGED <<owners, view, pub>>,
           \A m \in Mutexes : LOCKED \in state'[m] <=> LOCKED \in state[m]
    PROVE  ViewInv'
BY DEF ViewInv, FreeIsPublished, OwnerSeesWrites

\* The acquire fence after the read-modify-write that took the lock obtains
\* what the word of the free mutex carries.
LEMMA AcquiredViewInv ==
    ASSUME MutexTypeOK, LockInv, ViewInv, NEW t \in Threads, Acquired(t),
           LOCKED \notin state[arg[t]],
           LOCKED \in state'[arg[t]],
           \A m \in Mutexes : m # arg[t] => state'[m] = state[m]
    PROVE  ViewInv'
<1>1. pub[arg[t]] /\ owners[arg[t]] = {}
  BY DEF MutexTypeOK, LockInv, LockedIsOwned, ViewInv, FreeIsPublished
<1>2. /\ owners' = [owners EXCEPT ![arg[t]] = {t}]
      /\ view' = [view EXCEPT ![arg[t]] = {t}]
      /\ pub' = [pub EXCEPT ![arg[t]] = FALSE]
  BY <1>1 DEF Acquired, MutexTypeOK
<1> QED
  BY <1>2 DEF MutexTypeOK, ViewInv, FreeIsPublished, OwnerSeesWrites

\* Every step keeps the word of a free mutex carrying the last writes, and the
\* owner of a mutex seeing them.
LEMMA NextViewInv ==
    MutexTypeOK /\ LockInv /\ ViewInv /\ [MutexNext]_mutexVars => ViewInv'
<1> SUFFICES ASSUME MutexTypeOK, LockInv, ViewInv, [MutexNext]_mutexVars PROVE ViewInv'
  OBVIOUS
<1>1. ASSUME NEW t \in Threads, MutexStep(t) PROVE ViewInv'
  <2>1. CASE TrylockLoad(t)
    BY <2>1, OtherViewInv DEF TrylockLoad, TrylockFailed
  <2>2. CASE TrylockFetchOr(t)
    <3>1. CASE LOCKED \in state[arg[t]]
      BY <2>2, <3>1, OtherViewInv DEF MutexTypeOK, TrylockFetchOr, TrylockFailed
    <3>2. CASE LOCKED \notin state[arg[t]]
      BY <2>2, <3>2, AcquiredViewInv DEF MutexTypeOK, TrylockFetchOr
    <3> QED
      BY <3>1, <3>2
  <2>3. CASE LockExchange(t)
    <3>1. CASE LOCKED \in state[arg[t]]
      BY <2>3, <3>1, OtherViewInv DEF MutexTypeOK, LockExchange
    <3>2. CASE LOCKED \notin state[arg[t]]
      BY <2>3, <3>2, AcquiredViewInv DEF MutexTypeOK, LockExchange
    <3> QED
      BY <3>1, <3>2
  <2>4. CASE LockFutexWait(t)
    BY <2>4, OtherViewInv DEF LockFutexWait
  <2>5. CASE LockFutexReturn(t)
    BY <2>5, OtherViewInv DEF LockFutexReturn
  <2>6. CASE UnlockExchange(t)
    <3>1. t \in view[arg[t]] /\ arg[t] \in Mutexes
      BY <2>6 DEF MutexTypeOK, LockInv, UnlockerOwns, ViewInv, OwnerSeesWrites, UnlockExchange
    <3>2. /\ state' = [state EXCEPT ![arg[t]] = {}]
          /\ owners' = [owners EXCEPT ![arg[t]] = @ \ {t}]
          /\ pub' = [pub EXCEPT ![arg[t]] = TRUE]
          /\ view' = view
      BY <2>6, <3>1 DEF UnlockExchange
    <3> QED
      BY <3>1, <3>2 DEF MutexTypeOK, ViewInv, FreeIsPublished, OwnerSeesWrites
  <2>7. CASE UnlockWake(t)
    BY <2>7, OtherViewInv DEF UnlockWake
  <2> QED
    BY <1>1, <2>1, <2>2, <2>3, <2>4, <2>5, <2>6, <2>7 DEF MutexStep
<1>2. ASSUME NEW t \in Threads, SpuriousReturn(t) PROVE ViewInv'
  BY <1>2, OtherViewInv DEF SpuriousReturn
<1>3. ASSUME NEW t \in Threads, NEW m \in Mutexes, ClientLock(t, m) PROVE ViewInv'
  BY <1>3, OtherViewInv DEF ClientLock, MutexLock
<1>4. ASSUME NEW t \in Threads, NEW m \in Mutexes, ClientUnlock(t, m) PROVE ViewInv'
  BY <1>4, OtherViewInv DEF ClientUnlock, MutexUnlock
<1>5. CASE UNCHANGED mutexVars
  BY <1>5, OtherViewInv DEF mutexVars
<1> QED
  BY <1>1, <1>2, <1>3, <1>4, <1>5 DEF MutexNext

\* Whoever owns a mutex sees the writes of all earlier critical sections.
THEOREM MutexPublishes == MutexSpec => []OwnerSeesWrites
<1> DEFINE Inv == MutexTypeOK /\ LockInv /\ ViewInv
<1>1. MutexInit => Inv
  BY InitTypeOK, InitLockInv, InitViewInv
<1>2. Inv /\ [MutexNext]_mutexVars => Inv'
  BY NextTypeOK, NextLockInv, NextViewInv
<1>3. Inv => OwnerSeesWrites
  BY DEF ViewInv
<1> QED
  BY <1>1, <1>2, <1>3, PTL DEF MutexSpec

-----------------------------------------------------------------------------
(* No lost wake-up *)

\* Sleepers wait for the mutex they are locking and are remembered.
SleepInv == SleeperIsLocking /\ SleepersAreRemembered

\* Initially nobody sleeps.
LEMMA InitSleepInv == MutexInit => SleepInv
BY DEF MutexInit, SleepInv, SleeperIsLocking, SleepersAreRemembered, FutexInit, Words, StateWord

\* The words of different mutexes are different.
LEMMA StateWords ==
    ASSUME NEW m \in Mutexes, NEW n \in Mutexes
    PROVE  StateWord(m) \in Words /\ (StateWord(m) = StateWord(n) => m = n)
BY DEF StateWord, Words

\* A step of thread t that is not about sleeping: t neither was nor is asleep
\* or about to wake somebody, and no flag SLEEPING is cleared.
LEMMA OtherSleepInv ==
    ASSUME MutexTypeOK, SleepInv, NEW t \in Threads,
           queue' = queue,
           \A m \in Mutexes : SLEEPING \in state[m] => SLEEPING \in state'[m],
           \A u \in Threads \ {t} : op'[u] = op[u] /\ arg'[u] = arg[u],
           op[t] \notin {"unlock_wake", "exchange", "asleep"}
    PROVE  SleepInv'
<1>1. SleeperIsLocking'
  BY DEF SleepInv, SleeperIsLocking
<1>2. ASSUME NEW m \in Mutexes, queue'[StateWord(m)] # {}, SLEEPING \notin state'[m]
      PROVE  \E u \in Threads : WillWake(u, m)'
  <2>1. PICK u \in Threads : WillWake(u, m)
    BY <1>2 DEF SleepInv, SleepersAreRemembered
  <2>2. u # t
    BY <2>1 DEF WillWake
  <2> QED
    BY <2>1, <2>2 DEF WillWake, Awake
<1> QED
  BY <1>1, <1>2 DEF SleepInv, SleepersAreRemembered

\* A thread that has just left a queue of the kernel is going to announce the
\* others, if any.
LEMMA WokenSleepInv ==
    ASSUME MutexTypeOK, SleepInv, NEW u \in Threads, NEW w \in Words,
           u \in queue[w],
           queue' = [queue EXCEPT ![w] = @ \ {u}],
           UNCHANGED arg, op'[u] = op[u],
           \A v \in Threads : op'[v] # op[v] => op[v] = "unlock_wake" /\ arg[v] = arg[u],
           UNCHANGED state
    PROVE  SleepInv'
<1>1. op[u] = "asleep" /\ w = StateWord(arg[u]) /\ arg[u] \in Mutexes
  BY DEF MutexTypeOK, SleepInv, SleeperIsLocking
<1>2. Awake(u)'
  BY <1>1 DEF MutexTypeOK, SleepInv, SleeperIsLocking, Awake
<1>3. WillWake(u, arg[u])'
  BY <1>1, <1>2 DEF WillWake
<1>4. SleeperIsLocking'
  BY DEF MutexTypeOK, SleepInv, SleeperIsLocking
<1>5. ASSUME NEW m \in Mutexes, queue'[StateWord(m)] # {}, SLEEPING \notin state'[m],
             m # arg[u]
      PROVE  \E v \in Threads : WillWake(v, m)'
  <2>1. queue[StateWord(m)] # {}
    BY <1>1, <1>5, StateWords DEF MutexTypeOK
  <2>2. PICK v \in Threads : WillWake(v, m)
    BY <1>5, <2>1 DEF SleepInv, SleepersAreRemembered
  <2> QED
    BY <1>1, <1>5, <2>2 DEF WillWake, Awake, MutexTypeOK
<1> QED
  BY <1>1, <1>3, <1>4, <1>5 DEF SleepInv, SleepersAreRemembered

\* After a step of t in which nobody is woken, the promise for a mutex that t
\* was not concerned with is kept by the same thread as before.
LEMMA SameThreadWillWake ==
    ASSUME SleepInv, NEW t \in Threads, NEW m \in Mutexes,
           arg[t] # m \/ op[t] \notin {"unlock_wake", "exchange", "asleep"},
           \A u \in Threads \ {t} :
               /\ op'[u] = op[u]
               /\ arg'[u] = arg[u]
               /\ Awake(u) => Awake(u)',
           queue[StateWord(m)] # {},
           SLEEPING \notin state[m]
    PROVE  \E u \in Threads : WillWake(u, m)'
<1>1. PICK u \in Threads : WillWake(u, m)
  BY DEF SleepInv, SleepersAreRemembered
<1>2. u # t
  BY <1>1 DEF WillWake
<1> QED
  BY <1>1, <1>2 DEF WillWake

\* A step inside mutex.h forgets no sleeper: the flag SLEEPING is cleared only
\* by the thread that is then about to wake somebody.
LEMMA StepSleepInv ==
    ASSUME MutexTypeOK, SleepInv, NEW t \in Threads, MutexStep(t)
    PROVE  SleepInv'
<1>1. CASE TrylockLoad(t)
  BY <1>1, OtherSleepInv DEF MutexTypeOK, TrylockLoad, TrylockFailed
<1>2. CASE TrylockFetchOr(t)
  BY <1>2, OtherSleepInv DEF MutexTypeOK, TrylockFetchOr, TrylockFailed, Acquired
<1>3. CASE LockExchange(t)
  <2>1. /\ queue' = queue /\ arg' = arg /\ op[t] = "exchange"
        /\ \A u \in Threads \ {t} : op'[u] = op[u]
        /\ state' = [state EXCEPT ![arg[t]] = {LOCKED, SLEEPING}]
    BY <1>3 DEF MutexTypeOK, LockExchange, Acquired
  <2>2. SleeperIsLocking'
    BY <2>1 DEF SleepInv, SleeperIsLocking
  <2>3. SLEEPING \in state'[arg[t]]
    BY <2>1 DEF MutexTypeOK
  <2>4. ASSUME NEW m \in Mutexes, m # arg[t], queue'[StateWord(m)] # {},
               SLEEPING \notin state'[m]
        PROVE  \E u \in Threads : WillWake(u, m)'
    BY <2>1, <2>4, SameThreadWillWake DEF MutexTypeOK, Awake
  <2> QED
    BY <2>2, <2>3, <2>4 DEF SleepInv, SleepersAreRemembered
<1>4. CASE LockFutexWait(t)
  <2> DEFINE equal == state[arg[t]] = {LOCKED, SLEEPING}
  <2>1. CASE equal
    <3>1. /\ queue' = [queue EXCEPT ![StateWord(arg[t])] = @ \cup {t}]
          /\ op' = [op EXCEPT ![t] = "asleep"] /\ op[t] = "futex_wait"
          /\ arg' = arg /\ state' = state /\ arg[t] \in Mutexes
      BY <1>4, <2>1 DEF LockFutexWait, FutexWait, MutexTypeOK
    <3>2. SleeperIsLocking'
      BY <3>1 DEF SleepInv, SleeperIsLocking, MutexTypeOK
    <3>3. SLEEPING \in state'[arg[t]]
      BY <2>1, <3>1
    <3>4. ASSUME NEW m \in Mutexes, m # arg[t], queue'[StateWord(m)] # {},
                 SLEEPING \notin state'[m]
          PROVE  \E u \in Threads : WillWake(u, m)'
      <4>1. queue[StateWord(m)] # {}
        BY <3>1, <3>4, StateWords DEF MutexTypeOK
      <4>2. \A u \in Threads \ {t} : Awake(u) => Awake(u)'
        BY <3>1, StateWords DEF MutexTypeOK, Awake
      <4> QED
        BY <3>1, <3>4, <4>1, <4>2, SameThreadWillWake DEF MutexTypeOK
    <3> QED
      BY <3>2, <3>3, <3>4 DEF SleepInv, SleepersAreRemembered
  <2>2. CASE ~equal
    BY <1>4, <2>2, OtherSleepInv DEF LockFutexWait, FutexWait, MutexTypeOK
  <2> QED
    BY <2>1, <2>2
<1>5. CASE LockFutexReturn(t)
  <2>1. /\ queue' = queue /\ arg' = arg /\ state' = state
        /\ op' = [op EXCEPT ![t] = "exchange"] /\ Awake(t)
    BY <1>5 DEF LockFutexReturn
  <2>2. SleeperIsLocking'
    BY <2>1 DEF SleepInv, SleeperIsLocking, MutexTypeOK, Awake
  <2>3. \A u \in Threads, m \in Mutexes : WillWake(u, m) => WillWake(u, m)'
    BY <2>1 DEF WillWake, Awake, MutexTypeOK
  <2> QED
    BY <2>1, <2>2, <2>3 DEF SleepInv, SleepersAreRemembered
<1>6. CASE UnlockExchange(t)
  <2>1. /\ queue' = queue /\ arg' = arg /\ op[t] = "unlock_exchange"
        /\ \A u \in Threads \ {t} : op'[u] = op[u]
        /\ \A m \in Mutexes : m # arg[t] => state'[m] = state[m]
        /\ SLEEPING \in state[arg[t]] => op'[t] = "unlock_wake"
    BY <1>6 DEF UnlockExchange, MutexTypeOK
  <2>2. SleeperIsLocking'
    BY <2>1 DEF SleepInv, SleeperIsLocking
  <2>3. ASSUME NEW m \in Mutexes, queue'[StateWord(m)] # {}, SLEEPING \notin state'[m]
        PROVE  \E u \in Threads : WillWake(u, m)'
    <3>1. CASE m = arg[t] /\ SLEEPING \in state[m]
      BY <2>1, <3>1 DEF WillWake
    <3>2. CASE ~(m = arg[t] /\ SLEEPING \in state[m])
      BY <2>1, <2>3, <3>2, SameThreadWillWake DEF Awake
    <3> QED
      BY <3>1, <3>2
  <2> QED
    BY <2>2, <2>3 DEF SleepInv, SleepersAreRemembered
<1>7. CASE UnlockWake(t)
  <2>1. /\ op[t] = "unlock_wake" /\ arg' = arg /\ state' = state
        /\ \A u \in Threads \ {t} : op'[u] = op[u]
        /\ FutexWake(StateWord(arg[t])) /\ StateWord(arg[t]) \in Words
    BY <1>7, StateWords DEF UnlockWake, MutexTypeOK
  <2>2. CASE queue[StateWord(arg[t])] = {}
    <3>1. queue' = queue
      BY <2>1, <2>2 DEF FutexWake
    <3>2. SleeperIsLocking'
      BY <2>1, <3>1 DEF SleepInv, SleeperIsLocking
    <3>3. ASSUME NEW m \in Mutexes, queue'[StateWord(m)] # {}, SLEEPING \notin state'[m]
          PROVE  \E u \in Threads : WillWake(u, m)'
      BY <2>1, <2>2, <3>1, <3>3, SameThreadWillWake DEF Awake
    <3> QED
      BY <3>2, <3>3 DEF SleepInv, SleepersAreRemembered
  <2>3. CASE queue[StateWord(arg[t])] # {}
    <3>1. PICK u \in queue[StateWord(arg[t])] :
             queue' = [queue EXCEPT ![StateWord(arg[t])] = @ \ {u}]
      BY <2>1, <2>3 DEF FutexWake
    <3>2. u \in Threads /\ op[u] = "asleep" /\ arg[u] = arg[t]
      BY <2>1, <3>1, StateWords DEF MutexTypeOK, SleepInv, SleeperIsLocking
    <3> QED
      BY <2>1, <3>1, <3>2, WokenSleepInv DEF MutexTypeOK
  <2> QED
    BY <2>2, <2>3
<1> QED
  BY <1>1, <1>2, <1>3, <1>4, <1>5, <1>6, <1>7 DEF MutexStep

\* No step forgets a sleeper.
LEMMA NextSleepInv == MutexTypeOK /\ SleepInv /\ [MutexNext]_mutexVars => SleepInv'
<1> SUFFICES ASSUME MutexTypeOK, SleepInv, [MutexNext]_mutexVars PROVE SleepInv'
  OBVIOUS
<1>1. ASSUME NEW t \in Threads, MutexStep(t) PROVE SleepInv'
  BY <1>1, StepSleepInv
<1>2. ASSUME NEW t \in Threads, SpuriousReturn(t) PROVE SleepInv'
  <2>1. PICK w \in Words : t \in queue[w] /\ queue' = [queue EXCEPT ![w] = @ \ {t}]
    BY <1>2 DEF SpuriousReturn, FutexSpurious, MutexTypeOK
  <2> QED
    BY <1>2, <2>1, WokenSleepInv DEF SpuriousReturn
<1>3. ASSUME NEW t \in Threads, NEW m \in Mutexes, ClientLock(t, m) PROVE SleepInv'
  BY <1>3, OtherSleepInv DEF MutexTypeOK, ClientLock, MutexLock
<1>4. ASSUME NEW t \in Threads, NEW m \in Mutexes, ClientUnlock(t, m) PROVE SleepInv'
  BY <1>4, OtherSleepInv DEF MutexTypeOK, ClientUnlock, MutexUnlock
<1>5. CASE UNCHANGED mutexVars
  BY <1>5 DEF mutexVars, SleepInv, SleeperIsLocking, SleepersAreRemembered, WillWake, Awake
<1> QED
  BY <1>1, <1>2, <1>3, <1>4, <1>5 DEF MutexNext

\* No thread sleeps on a mutex that everybody has forgotten about.
THEOREM MutexWakes == MutexSpec => []SleepersAreRemembered
<1> DEFINE Inv == MutexTypeOK /\ SleepInv
<1>1. MutexInit => Inv
  BY InitTypeOK, InitSleepInv
<1>2. Inv /\ [MutexNext]_mutexVars => Inv'
  BY NextTypeOK, NextSleepInv
<1>3. Inv => SleepersAreRemembered
  BY DEF SleepInv
<1> QED
  BY <1>1, <1>2, <1>3, PTL DEF MutexSpec

-----------------------------------------------------------------------------
(* The mutex implements the abstract lock *)

\* The threads asking for each mutex, as MutexLockRef substitutes them.
Want == [m \in Mutexes |-> {t \in Threads : arg[t] = m /\ op[t] \in LockOps}]

\* A step in which nobody starts or stops asking is a stutter of the lock.
LEMMA StutterStep ==
    ASSUME UNCHANGED owners,
           \A t \in Threads :
               \/ op'[t] \notin LockOps /\ op[t] \notin LockOps
               \/ op'[t] \in LockOps /\ op[t] \in LockOps /\ arg'[t] = arg[t]
    PROVE  UNCHANGED <<Want, owners>>
BY DEF Want

\* Taking the lock grants it.
LEMMA GrantStep ==
    ASSUME MutexTypeOK, LockInv, NEW t \in Threads, NEW m \in Mutexes,
           m = arg[t], Acquired(t),
           op[t] \in LockOps, LOCKED \notin state[m], arg' = arg
    PROVE  MutexLockRef!LockNext
<1>1. owners[m] = {}
  BY DEF MutexTypeOK, LockInv, LockedIsOwned
<1>2. owners' = [owners EXCEPT ![m] = {t}] /\ op' = [op EXCEPT ![t] = "idle"]
  BY <1>1 DEF Acquired, MutexTypeOK
<1>3. Want' = [Want EXCEPT ![m] = @ \ {t}]
  <2>1. op'[t] \notin LockOps
    BY <1>2 DEF MutexTypeOK, LockOps
  <2>2. \A u \in Threads \ {t} : op'[u] = op[u]
    BY <1>2 DEF MutexTypeOK
  <2>3. ASSUME NEW n \in Mutexes
        PROVE  Want'[n] = IF n = m THEN Want[m] \ {t} ELSE Want[n]
    BY <2>1, <2>2 DEF Want
  <2> QED
    BY <2>3 DEF Want
<1>4. t \in Want[m]
  BY <1>1 DEF Want
<1>5. MutexLockRef!Grant(t, m)
  BY <1>1, <1>2, <1>3, <1>4 DEF MutexLockRef!Grant, Want
<1> QED
  BY <1>5 DEF MutexLockRef!LockNext

\* Every step is a step of the abstract lock, or changes nothing there.
LEMMA StepRefines ==
    ASSUME MutexTypeOK, LockInv, [MutexNext]_mutexVars
    PROVE  [MutexLockRef!LockNext]_<<Want, owners>>
<1>1. ASSUME NEW t \in Threads, MutexStep(t)
      PROVE  [MutexLockRef!LockNext]_<<Want, owners>>
  <2>1. CASE TrylockLoad(t)
    BY <2>1, StutterStep DEF MutexTypeOK, TrylockLoad, TrylockFailed, LockOps
  <2>2. CASE TrylockFetchOr(t)
    <3>1. CASE LOCKED \in state[arg[t]]
      BY <2>2, <3>1, StutterStep DEF MutexTypeOK, TrylockFetchOr, TrylockFailed, LockOps
    <3>2. CASE LOCKED \notin state[arg[t]]
      BY <2>2, <3>2, GrantStep DEF MutexTypeOK, TrylockFetchOr, LockOps
    <3> QED
      BY <3>1, <3>2
  <2>3. CASE LockExchange(t)
    <3>1. CASE LOCKED \in state[arg[t]]
      BY <2>3, <3>1, StutterStep DEF MutexTypeOK, LockExchange, LockOps
    <3>2. CASE LOCKED \notin state[arg[t]]
      BY <2>3, <3>2, GrantStep DEF MutexTypeOK, LockExchange, LockOps
    <3> QED
      BY <3>1, <3>2
  <2>4. CASE LockFutexWait(t)
    BY <2>4, StutterStep DEF MutexTypeOK, LockFutexWait, LockOps
  <2>5. CASE LockFutexReturn(t)
    BY <2>5, StutterStep DEF MutexTypeOK, LockFutexReturn, LockOps
  <2>6. CASE UnlockExchange(t)
    <3>1. owners[arg[t]] = {t} /\ arg[t] \in Mutexes
      BY <2>6 DEF MutexTypeOK, LockInv, MutualExclusion, UnlockerOwns, UnlockExchange
    <3>2. owners' = [owners EXCEPT ![arg[t]] = {}]
      BY <2>6, <3>1 DEF MutexTypeOK, UnlockExchange
    <3>3. Want' = Want
      BY <2>6 DEF Want, MutexTypeOK, UnlockExchange, LockOps
    <3>4. MutexLockRef!Release(t, arg[t])
      BY <3>1, <3>2, <3>3 DEF MutexLockRef!Release, Want
    <3> QED
      BY <3>1, <3>4 DEF MutexLockRef!LockNext
  <2>7. CASE UnlockWake(t)
    BY <2>7, StutterStep DEF MutexTypeOK, UnlockWake, LockOps
  <2> QED
    BY <1>1, <2>1, <2>2, <2>3, <2>4, <2>5, <2>6, <2>7 DEF MutexStep
<1>2. ASSUME NEW t \in Threads, SpuriousReturn(t)
      PROVE  [MutexLockRef!LockNext]_<<Want, owners>>
  BY <1>2 DEF SpuriousReturn, Want
<1>3. ASSUME NEW t \in Threads, NEW m \in Mutexes, ClientLock(t, m)
      PROVE  [MutexLockRef!LockNext]_<<Want, owners>>
  <2>1. Want' = [Want EXCEPT ![m] = @ \cup {t}]
    <3>1. /\ op' = [op EXCEPT ![t] = "trylock_load"]
          /\ arg' = [arg EXCEPT ![t] = m]
          /\ op[t] \notin LockOps
      BY <1>3 DEF ClientLock, MutexLock, LockOps
    <3>2. "trylock_load" \in LockOps
      BY DEF LockOps
    <3>3. op'[t] = "trylock_load" /\ arg'[t] = m
      BY <3>1 DEF MutexTypeOK
    <3>4. \A u \in Threads \ {t} : op'[u] = op[u] /\ arg'[u] = arg[u]
      BY <3>1 DEF MutexTypeOK
    <3>5. ASSUME NEW n \in Mutexes
          PROVE  Want'[n] = IF n = m THEN Want[m] \cup {t} ELSE Want[n]
      BY <3>1, <3>2, <3>3, <3>4 DEF Want
    <3> QED
      BY <3>5 DEF Want
  <2>2. {t} \cap (Want[m] \cup owners[m]) = {}
    BY <1>3 DEF Want, ClientLock, LockOps
  <2>3. owners' = owners
    BY <1>3 DEF ClientLock, MutexLock
  <2>4. MutexLockRef!Request({t}, m)
    BY <2>1, <2>2, <2>3 DEF MutexLockRef!Request, Want
  <2> QED
    BY <2>4 DEF MutexLockRef!LockNext
<1>4. ASSUME NEW t \in Threads, NEW m \in Mutexes, ClientUnlock(t, m)
      PROVE  [MutexLockRef!LockNext]_<<Want, owners>>
  BY <1>4, StutterStep DEF MutexTypeOK, ClientUnlock, MutexUnlock, LockOps
<1>5. CASE UNCHANGED mutexVars
  BY <1>5 DEF mutexVars, Want
<1> QED
  BY <1>1, <1>2, <1>3, <1>4, <1>5 DEF MutexNext

\* mutex.h implements the safety part of the abstract lock: every step grants
\* the mutex to a thread that asked, takes it back from its owner, starts a
\* request, or changes nothing a client could tell.
THEOREM MutexImplementsLock == MutexSpec => MutexLockRef!LockSafety
<1> DEFINE Inv == MutexTypeOK /\ LockInv
<1>1. MutexInit => Inv
  BY InitTypeOK, InitLockInv
<1>2. Inv /\ [MutexNext]_mutexVars => Inv'
  BY NextTypeOK, NextLockInv
<1>3. MutexInit => MutexLockRef!LockInit
  BY DEF MutexInit, MutexLockRef!LockInit, LockOps
<1>4. Inv /\ [MutexNext]_mutexVars => [MutexLockRef!LockNext]_MutexLockRef!lockVars
  BY StepRefines DEF MutexLockRef!lockVars, Want
<1> QED
  BY <1>1, <1>2, <1>3, <1>4, PTL DEF MutexSpec, MutexLockRef!LockSafety

-----------------------------------------------------------------------------
(* PART TWO: cond.h *)

-----------------------------------------------------------------------------
(* The inductive invariant *)

MonitorOps == MutexOps \cup {"idle", "cond_spin", "cond_asleep", "cond_fetch_or",
                             "signal_wake", "broadcast_requeue"}

MonitorTypeOK ==
    /\ queue \in [Words -> SUBSET Threads]
    /\ state \in [Mutexes -> {{}, {LOCKED}, {LOCKED, SLEEPING}}]
    /\ op \in [Threads -> MonitorOps]
    /\ arg \in [Threads -> Mutexes]
    /\ ret \in [Threads -> {"idle", "cond_spin", "cond_fetch_or"}]
    /\ spins \in [Threads -> Nat]
    /\ owners \in [Mutexes -> SUBSET Threads]
    /\ view \in [Mutexes -> SUBSET Threads]
    /\ pub \in [Mutexes -> BOOLEAN]
    /\ seq \in [Mutexes -> 0 .. NotifyBound]
    /\ seen \in [Threads -> 0 .. NotifyBound]
    /\ due \subseteq Threads

\* cond_wait goes on with its sleep after mutex_unlock, and with its fetch_or
\* after mutex_lock; in between it does not have the mutex, and at its end it
\* has it.
PlaceOf(t) ==
    /\ op[t] \in {"unlock_exchange", "unlock_wake"} => ret[t] # "cond_fetch_or"
    /\ op[t] \in LockOps => ret[t] # "cond_spin"
    /\ op[t] = "unlock_wake" /\ ret[t] = "cond_spin" => t \notin owners[arg[t]]
    /\ op[t] \in {"cond_spin", "cond_asleep"} => t \notin owners[arg[t]]
    /\ op[t] = "cond_fetch_or" => t \in owners[arg[t]]

PlacesOK == \A t \in Threads : PlaceOf(t)

\* A thread in a queue of the kernel waits for the mutex it is locking, or in
\* cond_wait for the counter or, after a broadcast, for the mutex; and it is in
\* one queue only.
SleepersPlaced ==
    \A t \in Threads : \A w \in Words : t \in queue[w] =>
        /\ \/ op[t] = "asleep" /\ w = StateWord(arg[t])
           \/ op[t] = "cond_asleep" /\ w \in {StateWord(arg[t]), SeqWord(arg[t])}
        /\ \A v \in Words : t \in queue[v] => v = w

\* A thread that is about to sleep on the counter has loaded an earlier value
\* of it, or the present one.
Before(t) ==
    \/ op[t] \in {"unlock_exchange", "unlock_wake"} /\ ret[t] = "cond_spin"
    \/ op[t] = "cond_spin"

SeenOK == \A t \in Threads : Before(t) => seen[t] <= seq[arg[t]]

\* A thread that a broadcast has met is still in cond_wait, and if it does not
\* sleep yet, it has loaded a value of the counter that is not the present one.
DueOK ==
    \A t \in due : InCondWait(t, arg[t]) /\ (Before(t) => seen[t] < seq[arg[t]])

MonitorInv ==
    /\ MonitorTypeOK
    /\ LockInv
    /\ ViewInv
    /\ PlacesOK
    /\ SleepersPlaced
    /\ RequeuedAreRemembered
    /\ SeenOK
    /\ DueOK
    /\ BroadcastMissesNobody

-----------------------------------------------------------------------------
(* What all steps have in common *)

\* The futex words are different.
LEMMA FutexWords ==
    /\ \A m \in Mutexes : StateWord(m) \in Words /\ SeqWord(m) \in Words
    /\ \A m, n \in Mutexes : StateWord(m) # SeqWord(n)
    /\ \A m, n \in Mutexes : StateWord(m) = StateWord(n) => m = n
    /\ \A m, n \in Mutexes : SeqWord(m) = SeqWord(n) => m = n
    /\ \A w \in Words : \E m \in Mutexes : w = StateWord(m) \/ w = SeqWord(m)
BY DEF StateWord, SeqWord, Words

\* Thread t takes a step, the others stay where they are.
Others(t) ==
    /\ \A u \in Threads \ {t} :
          op'[u] = op[u] /\ arg'[u] = arg[u] /\ ret'[u] = ret[u] /\ seen'[u] = seen[u]
    /\ \A m \in Mutexes : owners'[m] \ {t} = owners[m] \ {t}

\* The places and the loaded values after a step that leaves the counters
\* alone, if those of t are right.
LEMMA OthersKept ==
    ASSUME MonitorInv, NEW t \in Threads, Others(t), StillWaiting, UNCHANGED seq, MonitorTypeOK',
           PlaceOf(t)',
           Before(t)' => \/ Before(t) /\ arg'[t] = arg[t] /\ seen'[t] = seen[t]
                         \/ t \notin due /\ seen'[t] = seq[arg'[t]]
    PROVE  PlacesOK' /\ SeenOK' /\ DueOK'
<1>1. /\ \A u \in Threads : arg[u] \in Mutexes /\ arg'[u] \in Mutexes
      /\ \A m \in Mutexes : seq[m] \in Nat
      /\ due \subseteq Threads
  BY NotifyBoundAssumption DEF MonitorInv, MonitorTypeOK
<1>2. PlacesOK'
  BY <1>1 DEF MonitorInv, PlacesOK, PlaceOf, Others
<1>3. SeenOK'
  BY <1>1 DEF MonitorInv, SeenOK, Before, Others
<1>4. ASSUME NEW u \in due'
      PROVE  InCondWait(u, arg[u])' /\ (Before(u)' => seen'[u] < seq'[arg'[u]])
  <2>1. u \in due /\ \E m \in Mutexes : InCondWait(u, m)'
    BY <1>4 DEF StillWaiting
  <2>2. InCondWait(u, arg[u])'
    BY <2>1 DEF InCondWait
  <2>3. u \in Threads /\ (Before(u) => seen[u] < seq[arg[u]])
    BY <1>1, <2>1 DEF MonitorInv, DueOK
  <2>4. Before(u)' => seen'[u] < seq'[arg'[u]]
    BY <2>1, <2>3 DEF Before, Others
  <2> QED
    BY <2>2, <2>4
<1>5. DueOK'
  BY <1>4 DEF DueOK
<1> QED
  BY <1>2, <1>3, <1>5

\* Nobody goes to sleep, and who sleeps is where it was.
LEMMA SleepersKept ==
    ASSUME MonitorInv, NEW t \in Threads, Others(t), MonitorTypeOK',
           \A w \in Words : queue'[w] \subseteq queue[w],
           \A w \in Words : t \notin queue'[w]
    PROVE  SleepersPlaced'
BY DEF MonitorInv, MonitorTypeOK, SleepersPlaced, Others

\* The threads that a broadcast has met, after a step that starts and ends no
\* broadcast.
LEMMA MissedKept ==
    ASSUME MonitorInv, NEW t \in Threads, Others(t), StillWaiting,
           op[t] # "broadcast_requeue",
           \A m \in Mutexes : \A u \in due : u \in queue'[SeqWord(m)] => u \in queue[SeqWord(m)]
    PROVE  BroadcastMissesNobody'
<1> SUFFICES ASSUME NEW u \in due', NEW m \in Mutexes, u \in queue'[SeqWord(m)]
             PROVE  \E v \in Threads : op'[v] = "broadcast_requeue" /\ arg'[v] = m
  BY DEF BroadcastMissesNobody
<1>1. u \in due
  BY DEF StillWaiting
<1>2. PICK v \in Threads : op[v] = "broadcast_requeue" /\ arg[v] = m
  BY <1>1 DEF MonitorInv, BroadcastMissesNobody
<1> QED
  BY <1>2 DEF Others

\* The sleepers on the mutexes, after a step in which t keeps its promise and
\* clears no flag without giving one.
LEMMA RememberedKept ==
    ASSUME MonitorInv, NEW t \in Threads, Others(t), MonitorTypeOK',
           \A w \in Words : queue'[w] \subseteq queue[w] \cup {t},
           NEW m \in Mutexes,
           queue[StateWord(m)] # {} \/ SLEEPING \in state'[m] \/ queue'[StateWord(m)] = {},
           SLEEPING \in state[m] => SLEEPING \in state'[m] \/ WillWakeOrMark(t, m)',
           WillWakeOrMark(t, m) => \/ WillWakeOrMark(t, m)'
                                   \/ SLEEPING \in state'[m]
                                   \/ queue'[StateWord(m)] = {}
    PROVE  \/ queue'[StateWord(m)] = {}
           \/ SLEEPING \in state'[m]
           \/ \E u \in Threads : WillWakeOrMark(u, m)'
<1>1. ASSUME queue[StateWord(m)] # {}, SLEEPING \notin state[m], ~WillWakeOrMark(t, m)
      PROVE  \E u \in Threads : WillWakeOrMark(u, m)'
  <2>1. PICK u \in Threads : WillWakeOrMark(u, m)
    BY <1>1 DEF MonitorInv, RequeuedAreRemembered
  <2>2. u # t
    BY <1>1, <2>1
  <2>3. Awake(u) => Awake(u)'
    BY <2>2 DEF Awake, MonitorInv, MonitorTypeOK
  <2> QED
    BY <2>1, <2>2, <2>3 DEF WillWakeOrMark, WillWake, Others
<1> QED
  BY <1>1

-----------------------------------------------------------------------------
(* mutex.h *)

\* t tries to lock the mutex and has not succeeded; it is not asleep after the
\* step.
Asking(t) ==
    /\ op[t] \in LockOps /\ op'[t] \in LockOps \ {"asleep"} /\ Awake(t)
    /\ UNCHANGED <<queue, arg, ret, owners, view, pub, seq, seen>>
    /\ \A u \in Threads \ {t} : op'[u] = op[u]
    /\ \A m \in Mutexes : LOCKED \in state'[m] <=> LOCKED \in state[m]
    /\ \A m \in Mutexes : SLEEPING \in state[m] => SLEEPING \in state'[m]
    /\ op[t] = "exchange" => SLEEPING \in state'[arg[t]]
    /\ op[t] = "asleep" => op'[t] = "exchange"

\* t goes to sleep on the mutex.
FallingAsleep(t) ==
    /\ op[t] = "futex_wait" /\ op' = [op EXCEPT ![t] = "asleep"]
    /\ queue' = [queue EXCEPT ![StateWord(arg[t])] = @ \cup {t}]
    /\ state[arg[t]] = {LOCKED, SLEEPING}
    /\ UNCHANGED <<state, arg, ret, owners, view, pub, seq, seen>>

\* t locks the mutex.
Taking(t) ==
    /\ op[t] \in {"trylock_fetch_or", "exchange"} /\ op' = [op EXCEPT ![t] = ret[t]]
    /\ LOCKED \notin state[arg[t]] /\ LOCKED \in state'[arg[t]]
    /\ \A m \in Mutexes : m # arg[t] => state'[m] = state[m]
    /\ \A m \in Mutexes : SLEEPING \in state[m] => SLEEPING \in state'[m]
    /\ op[t] = "exchange" => SLEEPING \in state'[arg[t]]
    /\ Acquired(t)
    /\ UNCHANGED <<queue, arg, ret, seq, seen>>

\* Who is not asleep in the library is in no queue.
LEMMA NotAsleep ==
    ASSUME MonitorInv, NEW t \in Threads, op[t] \notin {"asleep", "cond_asleep"}
    PROVE  Awake(t) /\ \A w \in Words : t \notin queue[w]
BY DEF MonitorInv, MonitorTypeOK, SleepersPlaced, Awake

\* Every step keeps the types.
LEMMA MutexStepTypes ==
    ASSUME MonitorInv, NEW t \in Threads, MutexStep(t), UNCHANGED condVars, StillWaiting
    PROVE  MonitorTypeOK'
<1> USE MutexSpinsAssumption DEF MonitorInv, MonitorTypeOK, MonitorOps, MutexOps, LOCKED, SLEEPING, condVars
<1>1. due' \subseteq Threads
  BY DEF StillWaiting
<1>2. ASSUME Acquired(t)
      PROVE  /\ owners' \in [Mutexes -> SUBSET Threads]
             /\ view' \in [Mutexes -> SUBSET Threads]
             /\ pub' \in [Mutexes -> BOOLEAN]
             /\ spins' \in [Threads -> Nat]
             /\ op' \in [Threads -> MonitorOps]
  BY <1>2 DEF Acquired
<1>3. ASSUME TrylockFailed(t)
      PROVE  /\ spins' \in [Threads -> Nat]
             /\ op' \in [Threads -> MonitorOps]
             /\ UNCHANGED <<owners, view, pub>>
  BY <1>3 DEF TrylockFailed
<1>4. CASE TrylockLoad(t)
  BY <1>1, <1>3, <1>4 DEF TrylockLoad
<1>5. CASE TrylockFetchOr(t)
  BY <1>1, <1>2, <1>3, <1>5 DEF TrylockFetchOr
<1>6. CASE LockExchange(t)
  BY <1>1, <1>2, <1>6 DEF LockExchange
<1>7. CASE LockFutexWait(t)
  BY <1>1, <1>7, FutexWords DEF LockFutexWait, FutexWait
<1>8. CASE LockFutexReturn(t)
  BY <1>1, <1>8 DEF LockFutexReturn
<1>9. CASE UnlockExchange(t)
  BY <1>1, <1>9 DEF UnlockExchange
<1>10. CASE UnlockWake(t)
  <2>1. StateWord(arg[t]) \in Words /\ ret[t] \in MonitorOps
    BY FutexWords
  <2>2. queue' \in [Words -> SUBSET Threads]
    BY <1>10, <2>1 DEF UnlockWake, FutexWake
  <2>3. op' \in [Threads -> MonitorOps]
    BY <1>10, <2>1 DEF UnlockWake
  <2> QED
    BY <1>1, <1>10, <2>2, <2>3 DEF UnlockWake
<1> QED
  BY <1>4, <1>5, <1>6, <1>7, <1>8, <1>9, <1>10 DEF MutexStep

\* The steps of mutex.h, sorted by what they do to the lock and the queues.
LEMMA MutexKinds ==
    ASSUME MonitorInv, NEW t \in Threads, MutexStep(t), UNCHANGED condVars
    PROVE  \/ Asking(t) \/ FallingAsleep(t) \/ Taking(t)
           \/ UnlockExchange(t) \/ UnlockWake(t)
<1> USE DEF MonitorInv, MonitorTypeOK, condVars, LockOps
<1>1. CASE TrylockLoad(t)
  BY <1>1, NotAsleep DEF TrylockLoad, TrylockFailed, Asking
<1>2. CASE TrylockFetchOr(t)
  <2>1. CASE LOCKED \in state[arg[t]]
    BY <1>2, <2>1, NotAsleep DEF TrylockFetchOr, TrylockFailed, Asking
  <2>2. CASE LOCKED \notin state[arg[t]]
    BY <1>2, <2>2 DEF TrylockFetchOr, Acquired, Taking
  <2> QED
    BY <2>1, <2>2
<1>3. CASE LockExchange(t)
  <2>1. CASE LOCKED \in state[arg[t]]
    BY <1>3, <2>1, NotAsleep DEF LockExchange, Asking
  <2>2. CASE LOCKED \notin state[arg[t]]
    BY <1>3, <2>2 DEF LockExchange, Acquired, Taking
  <2> QED
    BY <2>1, <2>2
<1>4. CASE LockFutexWait(t)
  <2>1. CASE state[arg[t]] = {LOCKED, SLEEPING}
    BY <1>4, <2>1 DEF LockFutexWait, FutexWait, FallingAsleep
  <2>2. CASE state[arg[t]] # {LOCKED, SLEEPING}
    BY <1>4, <2>2, NotAsleep DEF LockFutexWait, FutexWait, Asking
  <2> QED
    BY <2>1, <2>2
<1>5. CASE LockFutexReturn(t)
  BY <1>5 DEF LockFutexReturn, Asking
<1> QED
  BY <1>1, <1>2, <1>3, <1>4, <1>5 DEF MutexStep

\* A failed attempt, or a thread that has been woken.
LEMMA AskingStep ==
    ASSUME MonitorInv, NEW t \in Threads, Asking(t), StillWaiting, MonitorTypeOK'
    PROVE  MonitorInv'
<1> USE DEF MonitorInv, MonitorTypeOK
<1>1. Others(t) /\ op[t] \in LockOps /\ op'[t] \in LockOps
  BY DEF Asking, Others
<1>2. LockInv'
  BY OtherLockInv DEF Asking, LockOps
<1>3. ViewInv'
  BY OtherViewInv DEF Asking
<1>4. PlacesOK' /\ SeenOK' /\ DueOK'
  <2>1. PlaceOf(t)'
    BY <1>1 DEF PlacesOK, PlaceOf, LockOps, Asking
  <2> QED
    BY <1>1, <2>1, OthersKept DEF Asking, Before, LockOps
<1>5. SleepersPlaced'
  BY <1>1, SleepersKept DEF Asking, Awake
<1>6. RequeuedAreRemembered'
  <2>1. ASSUME NEW m \in Mutexes, WillWakeOrMark(t, m)
        PROVE  WillWakeOrMark(t, m)' \/ SLEEPING \in state'[m]
    <3>1. Awake(t)' /\ arg[t] = m /\ arg'[t] = m
      BY <2>1 DEF Asking, Awake, WillWakeOrMark, WillWake
    <3> QED
      BY <2>1, <3>1 DEF Asking, WillWakeOrMark, WillWake, LockOps
  <2> QED
    BY <1>1, <2>1, RememberedKept DEF Asking, RequeuedAreRemembered
<1>7. BroadcastMissesNobody'
  BY <1>1, MissedKept DEF Asking, LockOps
<1> QED
  BY <1>2, <1>3, <1>4, <1>5, <1>6, <1>7

\* Going to sleep on the mutex: the flag is set, and stays so until the next
\* release.
LEMMA FallingAsleepStep ==
    ASSUME MonitorInv, NEW t \in Threads, FallingAsleep(t), StillWaiting, MonitorTypeOK'
    PROVE  MonitorInv'
<1> USE DEF MonitorInv, MonitorTypeOK
<1>1. Others(t) /\ op[t] = "futex_wait" /\ op'[t] = "asleep" /\ arg[t] \in Mutexes
  BY DEF FallingAsleep, Others
<1>2. LockInv'
  BY OtherLockInv DEF FallingAsleep
<1>3. ViewInv'
  BY OtherViewInv DEF FallingAsleep
<1>4. PlacesOK' /\ SeenOK' /\ DueOK'
  <2>1. PlaceOf(t)'
    BY <1>1 DEF PlacesOK, PlaceOf, LockOps, FallingAsleep
  <2> QED
    BY <1>1, <2>1, OthersKept DEF FallingAsleep, Before
<1>5. /\ StateWord(arg[t]) \in Words
      /\ queue'[StateWord(arg[t])] = queue[StateWord(arg[t])] \cup {t}
      /\ \A w \in Words : w # StateWord(arg[t]) => queue'[w] = queue[w]
  BY <1>1, FutexWords DEF FallingAsleep
<1>6. SleepersPlaced'
  <2>1. \A w \in Words : t \notin queue[w]
    BY <1>1, NotAsleep
  <2> QED
    BY <1>1, <1>5, <2>1 DEF SleepersPlaced, FallingAsleep
<1>7. RequeuedAreRemembered'
  <2> SUFFICES ASSUME NEW m \in Mutexes
               PROVE  \/ queue'[StateWord(m)] = {}
                      \/ SLEEPING \in state'[m]
                      \/ \E u \in Threads : WillWakeOrMark(u, m)'
    BY DEF RequeuedAreRemembered
  <2>1. CASE m = arg[t]
    BY <2>1 DEF FallingAsleep
  <2>2. CASE m # arg[t]
    <3>1. queue'[StateWord(m)] = queue[StateWord(m)]
      BY <1>1, <1>5, <2>2, FutexWords
    <3>2. \A w \in Words : queue'[w] \subseteq queue[w] \cup {t}
      BY <1>5
    <3>3. ~WillWakeOrMark(t, m) /\ state' = state
      BY <2>2 DEF FallingAsleep, WillWakeOrMark, WillWake
    <3>4. queue[StateWord(m)] # {} \/ SLEEPING \in state'[m] \/ queue'[StateWord(m)] = {}
      BY <3>1
    <3> QED
      BY <1>1, <3>2, <3>3, <3>4, RememberedKept
  <2> QED
    BY <2>1, <2>2
<1>8. BroadcastMissesNobody'
  <2>1. \A m \in Mutexes : queue'[SeqWord(m)] = queue[SeqWord(m)]
    BY <1>1, <1>5, FutexWords
  <2> QED
    BY <1>1, <2>1, MissedKept
<1> QED
  BY <1>2, <1>3, <1>4, <1>6, <1>7, <1>8

\* The word of a free mutex has no owner, so that t is the only one, and it
\* carries all earlier writes.
LEMMA TakingOwns ==
    ASSUME MonitorInv, NEW t \in Threads, Taking(t)
    PROVE  /\ owners[arg[t]] = {}
           /\ owners' = [owners EXCEPT ![arg[t]] = {t}]
           /\ view' = [view EXCEPT ![arg[t]] = {t}]
           /\ pub' = [pub EXCEPT ![arg[t]] = FALSE]
           /\ ret[t] \in {"idle", "cond_fetch_or"}
<1> USE DEF MonitorInv, MonitorTypeOK
<1>1. arg[t] \in Mutexes /\ LOCKED \notin state[arg[t]] /\ op[t] \in LockOps
  BY DEF Taking, LockOps
<1>2. owners[arg[t]] = {}
  BY <1>1 DEF LockInv, LockedIsOwned
<1>3. pub[arg[t]]
  BY <1>1 DEF ViewInv, FreeIsPublished
<1>4. ret[t] # "cond_spin"
  BY <1>1 DEF PlacesOK, PlaceOf
<1> QED
  BY <1>1, <1>2, <1>3, <1>4 DEF Taking, Acquired

\* Taking the mutex: the exchange sets SLEEPING, and a thread that comes out of
\* cond_wait with a fetch_or is going to.
LEMMA TakingStep ==
    ASSUME MonitorInv, NEW t \in Threads, Taking(t), StillWaiting, MonitorTypeOK'
    PROVE  MonitorInv'
<1> USE DEF MonitorInv, MonitorTypeOK
<1>1. /\ op[t] \in LockOps /\ op[t] # "asleep" /\ arg[t] \in Mutexes
      /\ op'[t] = ret[t] /\ op'[t] \in {"idle", "cond_fetch_or"}
      /\ UNCHANGED <<queue, arg, ret, seq, seen>>
      /\ owners[arg[t]] = {} /\ owners' = [owners EXCEPT ![arg[t]] = {t}]
  BY TakingOwns, ZenonT(30) DEF Taking, LockOps
<1>2. Others(t)
  BY <1>1 DEF Others, Taking
<1>3. LockInv'
  <2>1. LockedIsOwned'
    BY <1>1, ZenonT(30) DEF LockInv, LockedIsOwned, Taking
  <2>2. MutualExclusion'
    BY <1>1 DEF LockInv, MutualExclusion
  <2>3. ASSUME NEW u \in Threads, op'[u] = "unlock_exchange"
        PROVE  u \in owners'[arg'[u]]
    <3>1. u # t /\ op[u] = "unlock_exchange" /\ arg'[u] = arg[u] /\ arg[u] \in Mutexes
      BY <1>1, <1>2, <2>3 DEF Others
    <3>2. u \in owners[arg[u]]
      BY <3>1 DEF LockInv, UnlockerOwns
    <3> QED
      BY <1>1, <3>1, <3>2
  <2> QED
    BY <2>1, <2>2, <2>3 DEF LockInv, UnlockerOwns
<1>4. ViewInv'
  <2>1. view' = [view EXCEPT ![arg[t]] = {t}] /\ pub' = [pub EXCEPT ![arg[t]] = FALSE]
    BY TakingOwns
  <2>2. LOCKED \in state'[arg[t]] /\ \A m \in Mutexes : m # arg[t] => state'[m] = state[m]
    BY DEF Taking
  <2> QED
    BY <1>1, <2>1, <2>2 DEF ViewInv, FreeIsPublished, OwnerSeesWrites
<1>5. PlacesOK' /\ SeenOK' /\ DueOK'
  <2>1. PlaceOf(t)'
    BY <1>1 DEF PlaceOf, LockOps
  <2> QED
    BY <1>1, <1>2, <2>1, OthersKept DEF Before
<1>6. SleepersPlaced'
  BY <1>1, <1>2, NotAsleep, SleepersKept DEF LockOps
<1>7. RequeuedAreRemembered'
  <2>1. Awake(t) /\ queue' = queue
    BY <1>1, NotAsleep DEF LockOps
  <2>2. ASSUME NEW m \in Mutexes, WillWakeOrMark(t, m)
        PROVE  WillWakeOrMark(t, m)' \/ SLEEPING \in state'[m]
    BY <1>1, <2>2 DEF Taking, WillWakeOrMark, WillWake, LockOps
  <2>3. \A m \in Mutexes : SLEEPING \in state[m] => SLEEPING \in state'[m]
    BY DEF Taking
  <2> QED
    BY <1>2, <2>1, <2>2, <2>3, RememberedKept DEF RequeuedAreRemembered
<1>8. BroadcastMissesNobody'
  BY <1>1, <1>2, MissedKept DEF LockOps
<1> QED
  BY <1>3, <1>4, <1>5, <1>6, <1>7, <1>8

\* The release: t is the owner, and if SLEEPING was set it wakes somebody next.
LEMMA ReleasingStep ==
    ASSUME MonitorInv, NEW t \in Threads, UnlockExchange(t), UNCHANGED condVars,
           StillWaiting, MonitorTypeOK'
    PROVE  MonitorInv'
<1> USE DEF MonitorInv, MonitorTypeOK, condVars
<1>1. /\ op[t] = "unlock_exchange" /\ arg[t] \in Mutexes
      /\ owners[arg[t]] = {t} /\ owners' = [owners EXCEPT ![arg[t]] = {}]
      /\ state' = [state EXCEPT ![arg[t]] = {}]
      /\ UNCHANGED <<queue, arg, ret, seq, seen>>
      /\ ret[t] \in {"idle", "cond_spin"}
      /\ op'[t] = IF SLEEPING \in state[arg[t]] THEN "unlock_wake" ELSE ret[t]
  <2>1. op[t] = "unlock_exchange" /\ ret[t] # "cond_fetch_or"
    BY DEF UnlockExchange, PlacesOK, PlaceOf
  <2>2. owners[arg[t]] = {t}
    BY <2>1 DEF LockInv, MutualExclusion, UnlockerOwns
  <2>3. owners[arg[t]] \ {t} = {}
    BY <2>2
  <2>4. owners' = [owners EXCEPT ![arg[t]] = {}]
    BY <2>3 DEF UnlockExchange
  <2> QED
    BY <2>1, <2>2, <2>4 DEF UnlockExchange
<1>2. Others(t)
  BY <1>1 DEF Others, UnlockExchange
<1>3. LockInv'
  <2>1. LockedIsOwned'
    BY <1>1 DEF LockInv, LockedIsOwned, LOCKED
  <2>2. MutualExclusion'
    BY <1>1 DEF LockInv, MutualExclusion
  <2>3. ASSUME NEW u \in Threads, op'[u] = "unlock_exchange"
        PROVE  u \in owners'[arg'[u]]
    <3>1. u # t /\ op[u] = "unlock_exchange" /\ arg'[u] = arg[u] /\ arg[u] \in Mutexes
      BY <1>1, <1>2, <2>3 DEF Others
    <3>2. u \in owners[arg[u]]
      BY <3>1 DEF LockInv, UnlockerOwns
    <3> QED
      BY <1>1, <3>1, <3>2
  <2> QED
    BY <2>1, <2>2, <2>3 DEF LockInv, UnlockerOwns
<1>4. ViewInv'
  <2>1. pub' = [pub EXCEPT ![arg[t]] = TRUE] /\ view' = view
    BY <1>1 DEF UnlockExchange, ViewInv, OwnerSeesWrites
  <2> QED
    BY <1>1, <2>1 DEF ViewInv, FreeIsPublished, OwnerSeesWrites
<1>5. PlacesOK' /\ SeenOK' /\ DueOK'
  <2>1. PlaceOf(t)'
    BY <1>1 DEF PlaceOf, LockOps
  <2> QED
    BY <1>1, <1>2, <2>1, OthersKept DEF Before
<1>6. SleepersPlaced'
  BY <1>1, <1>2, NotAsleep, SleepersKept
<1>7. RequeuedAreRemembered'
  <2>1. ASSUME NEW m \in Mutexes
        PROVE  SLEEPING \in state[m] => SLEEPING \in state'[m] \/ WillWakeOrMark(t, m)'
    BY <1>1 DEF WillWakeOrMark, WillWake
  <2>2. \A m \in Mutexes : ~WillWakeOrMark(t, m)
    BY <1>1 DEF WillWakeOrMark, WillWake, LockOps
  <2> QED
    BY <1>1, <1>2, <2>1, <2>2, RememberedKept DEF RequeuedAreRemembered
<1>8. BroadcastMissesNobody'
  BY <1>1, <1>2, MissedKept
<1> QED
  BY <1>3, <1>4, <1>5, <1>6, <1>7, <1>8

-----------------------------------------------------------------------------
(* Waking *)

\* t wakes a thread that sleeps on one of the words, finds none, or is itself
\* woken for no reason.
Waking(t) ==
    /\ UNCHANGED <<state, arg, ret, owners, view, pub, seq, seen>>
    /\ \/ op' = op
       \/ op[t] = "unlock_wake" /\ op' = [op EXCEPT ![t] = ret[t]]
       \/ op[t] = "signal_wake" /\ op' = [op EXCEPT ![t] = "idle"]
    /\ op[t] \in {"unlock_wake", "signal_wake", "asleep", "cond_asleep"}
    /\ \E w \in Words :
          /\ op[t] = "unlock_wake" => w = StateWord(arg[t])
          /\ \/ queue[w] = {} /\ queue' = queue
             \/ \E u \in queue[w] : queue' = [queue EXCEPT ![w] = @ \ {u}]

\* A thread that was woken is going to announce the other sleepers.
LEMMA WokenRemembers ==
    ASSUME MonitorInv, NEW w \in Words, NEW u \in queue[w], arg' = arg, op'[u] = op[u],
           MonitorTypeOK',
           \A v \in Words : u \notin queue[v] => u \notin queue'[v],
           u \notin queue'[w]
    PROVE  WillWakeOrMark(u, arg[u])'
<1> USE DEF MonitorInv, MonitorTypeOK
<1>1. u \in Threads /\ op[u] \in {"asleep", "cond_asleep"}
  BY DEF SleepersPlaced
<1>2. Awake(u)'
  BY <1>1 DEF SleepersPlaced, Awake
<1> QED
  BY <1>1, <1>2 DEF WillWakeOrMark, WillWake

\* Waking somebody.
LEMMA WakingStep ==
    ASSUME MonitorInv, NEW t \in Threads, Waking(t), StillWaiting, MonitorTypeOK'
    PROVE  MonitorInv'
<1> USE DEF MonitorInv, MonitorTypeOK
<1>1. PICK w \in Words :
          /\ op[t] = "unlock_wake" => w = StateWord(arg[t])
          /\ \/ queue[w] = {} /\ queue' = queue
             \/ \E u \in queue[w] : queue' = [queue EXCEPT ![w] = @ \ {u}]
  BY DEF Waking
<1>2. \A v \in Words : queue'[v] \subseteq queue[v]
  BY <1>1
<1>3. /\ UNCHANGED <<state, arg, ret, owners, view, pub, seq, seen>>
      /\ op[t] \in {"unlock_wake", "signal_wake", "asleep", "cond_asleep"}
      /\ \/ op'[t] = op[t] /\ op[t] \in {"unlock_wake", "signal_wake", "asleep", "cond_asleep"}
         \/ op[t] = "unlock_wake" /\ op'[t] = ret[t]
         \/ op[t] = "signal_wake" /\ op'[t] = "idle"
      /\ \A u \in Threads \ {t} : op'[u] = op[u]
      /\ \A u \in Threads : op[u] \in {"asleep", "cond_asleep"} => op'[u] = op[u]
  BY DEF Waking
<1>4. Others(t)
  BY <1>3 DEF Others
<1>5. ret[t] # "cond_fetch_or" \/ op[t] # "unlock_wake"
  BY DEF PlacesOK, PlaceOf
<1>6. LockInv'
  BY <1>3, <1>5, OtherLockInv
<1>7. ViewInv'
  BY <1>3, OtherViewInv
<1>8. PlacesOK' /\ SeenOK' /\ DueOK'
  <2>1. PlaceOf(t)'
    BY <1>3, <1>5 DEF PlacesOK, PlaceOf, LockOps
  <2> QED
    BY <1>3, <1>4, <1>5, <2>1, OthersKept DEF Before
<1>9. SleepersPlaced'
  BY <1>2, <1>3 DEF SleepersPlaced
<1>10. RequeuedAreRemembered'
  <2> SUFFICES ASSUME NEW m \in Mutexes, queue'[StateWord(m)] # {}, SLEEPING \notin state'[m]
               PROVE  \E v \in Threads : WillWakeOrMark(v, m)'
    BY DEF RequeuedAreRemembered
  <2>1. StateWord(m) \in Words
    BY FutexWords
  <2>2. CASE \E u \in queue[w] : arg[u] = m /\ queue' = [queue EXCEPT ![w] = @ \ {u}]
    <3>1. PICK u \in queue[w] : arg[u] = m /\ queue' = [queue EXCEPT ![w] = @ \ {u}]
      BY <2>2
    <3>2. u \in Threads /\ op'[u] = op[u]
      BY <1>3, <3>1 DEF SleepersPlaced
    <3>3. u \notin queue'[w]
      BY <3>1
    <3>4. WillWakeOrMark(u, arg[u])'
      BY <1>2, <1>3, <3>1, <3>2, <3>3, WokenRemembers
    <3> QED
      BY <1>3, <3>1, <3>2, <3>4
  <2>3. CASE ~ \E u \in queue[w] : arg[u] = m /\ queue' = [queue EXCEPT ![w] = @ \ {u}]
    <3>1. queue[StateWord(m)] # {} /\ SLEEPING \notin state[m]
      BY <1>2, <1>3, <2>1
    <3>2. PICK v \in Threads : WillWakeOrMark(v, m)
      BY <3>1 DEF RequeuedAreRemembered
    <3>3. Awake(v) => Awake(v)'
      BY <1>2 DEF Awake
    <3>4. CASE v = t /\ op[t] = "unlock_wake"
      <4>1. arg[t] = m /\ w = StateWord(m)
        BY <1>1, <3>2, <3>4 DEF WillWakeOrMark, WillWake
      <4>2. PICK u \in queue[w] : queue' = [queue EXCEPT ![w] = @ \ {u}]
        BY <1>1, <3>1, <4>1
      <4>3. arg[u] = m
        <5>1. u \in Threads /\ arg[u] \in Mutexes
          BY <4>2
        <5>2. w = StateWord(arg[u]) \/ w = SeqWord(arg[u])
          BY <4>2, <5>1 DEF SleepersPlaced
        <5> QED
          BY <4>1, <5>1, <5>2, FutexWords
      <4> QED
        BY <2>3, <4>2, <4>3
    <3>5. CASE ~(v = t /\ op[t] = "unlock_wake")
      <4>1. op'[v] = op[v] /\ arg'[v] = arg[v] /\ ret'[v] = ret[v]
        BY <1>3, <3>2, <3>5 DEF WillWakeOrMark, WillWake, LockOps
      <4> QED
        BY <3>2, <3>3, <4>1 DEF WillWakeOrMark, WillWake
    <3> QED
      BY <3>4, <3>5
  <2> QED
    BY <2>2, <2>3
<1>11. BroadcastMissesNobody'
  BY <1>2, <1>3, <1>4, MissedKept, FutexWords
<1> QED
  BY <1>6, <1>7, <1>8, <1>9, <1>10, <1>11

-----------------------------------------------------------------------------
(* cond.h *)

\* Every step keeps the types.
LEMMA CondStepTypes ==
    ASSUME MonitorInv, NEW t \in Threads, CondStep(t), StillWaiting
    PROVE  MonitorTypeOK'
<1> USE NotifyBoundAssumption
    DEF MonitorInv, MonitorTypeOK, MonitorOps, MutexOps, LOCKED, SLEEPING, condVars, GoTo, Relock, Forget
<1>1. due' \subseteq Threads /\ StateWord(arg[t]) \in Words /\ SeqWord(arg[t]) \in Words
  BY FutexWords DEF StillWaiting
<1>2. CASE CondSpin(t)
  BY <1>1, <1>2, SMTT(30) DEF CondSpin
<1>3. CASE CondFutexWait(t)
  <2>1. queue' \in [Words -> SUBSET Threads]
    BY <1>1, <1>3 DEF CondFutexWait, FutexWait
  <2>2. \/ op' = [op EXCEPT ![t] = "cond_asleep"] /\ ret' = ret
        \/ op' = [op EXCEPT ![t] = "trylock_load"] /\ ret' = [ret EXCEPT ![t] = "cond_fetch_or"]
    BY <1>3 DEF CondFutexWait, AfterWait
  <2>3. op' \in [Threads -> MonitorOps] /\ ret' \in [Threads -> {"idle", "cond_spin", "cond_fetch_or"}]
    BY <2>2
  <2>4. spins' = [spins EXCEPT ![t] = 0] /\ seen' = [seen EXCEPT ![t] = 0]
    BY <1>3 DEF CondFutexWait
  <2>5. spins' \in [Threads -> Nat] /\ seen' \in [Threads -> 0 .. NotifyBound]
    BY <2>4
  <2>6. UNCHANGED <<state, arg, owners, view, pub, seq>>
    BY <1>3 DEF CondFutexWait
  <2> QED
    BY <1>1, <2>1, <2>3, <2>5, <2>6
<1>4. CASE CondFutexReturn(t)
  BY <1>1, <1>4 DEF CondFutexReturn, AfterWait
<1>5. CASE CondFetchOr(t)
  <2>1. t \in owners[arg[t]]
    BY <1>5 DEF CondFetchOr, PlacesOK, PlaceOf
  <2>2. LOCKED \in state[arg[t]]
    BY <2>1 DEF LockInv, LockedIsOwned
  <2>3. state[arg[t]] \in {{LOCKED}, {LOCKED, SLEEPING}}
    BY <2>2
  <2>4. Marked(state[arg[t]]) = {LOCKED, SLEEPING}
    BY <2>3 DEF Marked
  <2>5. state' = [state EXCEPT ![arg[t]] = {LOCKED, SLEEPING}]
    BY <1>5, <2>4 DEF CondFetchOr
  <2> QED
    BY <1>1, <1>5, <2>5 DEF CondFetchOr
<1>6. CASE SignalWake(t)
  <2>1. queue' \in [Words -> SUBSET Threads]
    BY <1>1, <1>6 DEF SignalWake, FutexWake
  <2> QED
    BY <1>1, <1>6, <2>1 DEF SignalWake
<1>7. CASE BroadcastRequeue(t)
  <2>1. queue' \in [Words -> SUBSET Threads]
    BY <1>1, <1>7 DEF BroadcastRequeue, FutexRequeue
  <2> QED
    BY <1>1, <1>7, <2>1 DEF BroadcastRequeue
<1> QED
  BY <1>2, <1>3, <1>4, <1>5, <1>6, <1>7 DEF CondStep

\* t goes on in cond_wait without sleeping: it looks at the counter again, or
\* starts to lock the mutex.  A thread that was woken locks the mutex in order
\* to set SLEEPING.
GoingOn(t) ==
    /\ op[t] \in {"cond_spin", "cond_asleep"} /\ Awake(t)
    /\ \/ op[t] = "cond_spin" /\ op'[t] = "cond_spin" /\ UNCHANGED <<ret, seen>>
       \/ op'[t] = "trylock_load" /\ ret'[t] \in {"idle", "cond_fetch_or"}
    /\ op[t] = "cond_asleep" => op'[t] = "trylock_load" /\ ret'[t] = "cond_fetch_or"
    /\ UNCHANGED <<queue, state, arg, owners, view, pub, seq>>
    /\ \A u \in Threads \ {t} : op'[u] = op[u] /\ ret'[u] = ret[u] /\ seen'[u] = seen[u]

\* t goes to sleep on the counter.
Sleeping(t) ==
    /\ op[t] = "cond_spin" /\ op' = [op EXCEPT ![t] = "cond_asleep"]
    /\ queue' = [queue EXCEPT ![SeqWord(arg[t])] = @ \cup {t}]
    /\ seq[arg[t]] = seen[t]
    /\ \A u \in Threads \ {t} : seen'[u] = seen[u]
    /\ UNCHANGED <<state, arg, ret, owners, view, pub, seq>>

\* The steps of cond.h, sorted by what they do to the lock and the queues.
LEMMA CondKinds ==
    ASSUME MonitorInv, NEW t \in Threads, CondStep(t)
    PROVE  \/ GoingOn(t) \/ Sleeping(t) \/ CondFetchOr(t) \/ Waking(t) \/ BroadcastRequeue(t)
<1> USE DEF MonitorInv, MonitorTypeOK, condVars, GoTo, Relock, Forget
<1>1. CASE CondSpin(t)
  <2>1. op[t] = "cond_spin" /\ Awake(t)
    BY <1>1, NotAsleep DEF CondSpin
  <2> QED
    BY <1>1, <2>1 DEF CondSpin, GoingOn
<1>2. CASE CondFutexWait(t)
  <2>1. op[t] = "cond_spin" /\ Awake(t)
    BY <1>2, NotAsleep DEF CondFutexWait
  <2> QED
    BY <1>2, <2>1 DEF CondFutexWait, SeqHolds, FutexWait, AfterWait, GoingOn, Sleeping
<1>3. CASE CondFutexReturn(t)
  BY <1>3 DEF CondFutexReturn, AfterWait, GoingOn
<1>4. CASE SignalWake(t)
  <2>1. SeqWord(arg[t]) \in Words
    BY FutexWords
  <2> QED
    BY <1>4, <2>1 DEF SignalWake, FutexWake, Waking
<1> QED
  BY <1>1, <1>2, <1>3, <1>4 DEF CondStep

\* Going on without sleeping.
LEMMA GoingOnStep ==
    ASSUME MonitorInv, NEW t \in Threads, GoingOn(t), StillWaiting, MonitorTypeOK'
    PROVE  MonitorInv'
<1> USE DEF MonitorInv, MonitorTypeOK
<1>1. /\ op[t] \in {"cond_spin", "cond_asleep"} /\ op'[t] \in {"cond_spin", "trylock_load"}
      /\ UNCHANGED <<queue, state, arg, owners, view, pub, seq>>
      /\ \A w \in Words : t \notin queue[w]
  BY DEF GoingOn, Awake
<1>2. Others(t)
  BY DEF GoingOn, Others
<1>3. LockInv'
  BY <1>1, <1>2, OtherLockInv DEF Others
<1>4. ViewInv'
  BY <1>1, OtherViewInv
<1>5. PlacesOK' /\ SeenOK' /\ DueOK'
  <2>1. PlaceOf(t)'
    BY <1>1 DEF GoingOn, PlacesOK, PlaceOf, LockOps
  <2> QED
    BY <1>1, <1>2, <2>1, OthersKept DEF GoingOn, Before
<1>6. SleepersPlaced'
  BY <1>1, <1>2, SleepersKept
<1>7. RequeuedAreRemembered'
  <2>1. ASSUME NEW m \in Mutexes, WillWakeOrMark(t, m)
        PROVE  WillWakeOrMark(t, m)'
    <3>1. op'[t] = "trylock_load" /\ ret'[t] = "cond_fetch_or" /\ arg'[t] = m /\ Awake(t)'
      BY <1>1, <2>1 DEF GoingOn, WillWakeOrMark, WillWake, Awake, LockOps
    <3> QED
      BY <3>1 DEF WillWakeOrMark, LockOps
  <2> QED
    BY <1>1, <1>2, <2>1, RememberedKept DEF RequeuedAreRemembered
<1>8. BroadcastMissesNobody'
  BY <1>1, <1>2, MissedKept
<1> QED
  BY <1>3, <1>4, <1>5, <1>6, <1>7, <1>8

\* Going to sleep on the counter: no broadcast has met the thread, because it
\* would find the counter changed.
LEMMA SleepingStep ==
    ASSUME MonitorInv, NEW t \in Threads, Sleeping(t), StillWaiting, MonitorTypeOK'
    PROVE  MonitorInv'
<1> USE DEF MonitorInv, MonitorTypeOK
<1>1. op[t] = "cond_spin" /\ op'[t] = "cond_asleep" /\ arg[t] \in Mutexes
  BY DEF Sleeping
<1>2. Others(t)
  BY DEF Sleeping, Others
<1>3. t \notin due
  <2>1. seen[t] = seq[arg[t]] /\ seq[arg[t]] \in Nat
    BY <1>1, NotifyBoundAssumption DEF Sleeping
  <2> QED
    BY <1>1, <2>1 DEF DueOK, Before
<1>4. LockInv'
  BY OtherLockInv DEF Sleeping
<1>5. ViewInv'
  BY OtherViewInv DEF Sleeping
<1>6. PlacesOK' /\ SeenOK' /\ DueOK'
  <2>1. PlaceOf(t)'
    BY <1>1 DEF PlacesOK, PlaceOf, LockOps, Sleeping
  <2> QED
    BY <1>1, <1>2, <2>1, OthersKept DEF Sleeping, Before
<1>7. /\ SeqWord(arg[t]) \in Words
      /\ queue'[SeqWord(arg[t])] = queue[SeqWord(arg[t])] \cup {t}
      /\ \A w \in Words : w # SeqWord(arg[t]) => queue'[w] = queue[w]
  BY <1>1, FutexWords DEF Sleeping
<1>8. SleepersPlaced'
  <2>1. \A w \in Words : t \notin queue[w]
    BY <1>1, NotAsleep
  <2> QED
    BY <1>1, <1>7, <2>1 DEF SleepersPlaced, Sleeping
<1>9. RequeuedAreRemembered'
  <2> SUFFICES ASSUME NEW m \in Mutexes
               PROVE  \/ queue'[StateWord(m)] = {}
                      \/ SLEEPING \in state'[m]
                      \/ \E u \in Threads : WillWakeOrMark(u, m)'
    BY DEF RequeuedAreRemembered
  <2>1. queue'[StateWord(m)] = queue[StateWord(m)]
    BY <1>1, <1>7, FutexWords
  <2>2. \A w \in Words : queue'[w] \subseteq queue[w] \cup {t}
    BY <1>7
  <2>3. ~WillWakeOrMark(t, m) /\ state' = state
    BY <1>1 DEF Sleeping, WillWakeOrMark, WillWake, LockOps
  <2>4. queue[StateWord(m)] # {} \/ SLEEPING \in state'[m] \/ queue'[StateWord(m)] = {}
    BY <2>1
  <2> QED
    BY <1>2, <2>2, <2>3, <2>4, RememberedKept
<1>10. BroadcastMissesNobody'
  <2>1. ASSUME NEW m \in Mutexes, NEW u \in due, u \in queue'[SeqWord(m)]
        PROVE  u \in queue[SeqWord(m)]
    BY <1>3, <1>7, <2>1, FutexWords
  <2> QED
    BY <1>1, <1>2, <2>1, MissedKept
<1> QED
  BY <1>4, <1>5, <1>6, <1>8, <1>9, <1>10

\* The fetch_or at the end of cond_wait sets SLEEPING for the threads that the
\* same broadcast has moved to the mutex.
LEMMA CondFetchOrStep ==
    ASSUME MonitorInv, NEW t \in Threads, CondFetchOr(t), StillWaiting, MonitorTypeOK'
    PROVE  MonitorInv'
<1> USE DEF MonitorInv, MonitorTypeOK
<1>1. /\ op[t] = "cond_fetch_or" /\ op'[t] = "idle" /\ arg[t] \in Mutexes
      /\ UNCHANGED <<queue, arg, ret, spins, owners, view, pub, seq, seen>>
  BY DEF CondFetchOr, condVars
<1>2. /\ state' = [state EXCEPT ![arg[t]] = @ \cup {SLEEPING}]
      /\ \A m \in Mutexes : SLEEPING \in state[m] => SLEEPING \in state'[m]
      /\ \A m \in Mutexes : LOCKED \in state'[m] <=> LOCKED \in state[m]
  BY DEF CondFetchOr, Marked, LOCKED, SLEEPING
<1>3. Others(t)
  BY <1>1 DEF CondFetchOr, Others
<1>4. LockInv'
  BY <1>1, <1>2, OtherLockInv DEF CondFetchOr
<1>5. ViewInv'
  BY <1>1, <1>2, OtherViewInv
<1>6. PlacesOK' /\ SeenOK' /\ DueOK'
  <2>1. PlaceOf(t)'
    BY <1>1 DEF PlaceOf, LockOps
  <2> QED
    BY <1>1, <1>3, <2>1, OthersKept DEF Before
<1>7. SleepersPlaced'
  BY <1>1, <1>3, NotAsleep, SleepersKept
<1>8. RequeuedAreRemembered'
  <2>1. ASSUME NEW m \in Mutexes, WillWakeOrMark(t, m)
        PROVE  SLEEPING \in state'[m]
    BY <1>1, <1>2, <2>1 DEF WillWakeOrMark, WillWake
  <2> QED
    BY <1>1, <1>2, <1>3, <2>1, RememberedKept DEF RequeuedAreRemembered
<1>9. BroadcastMissesNobody'
  BY <1>1, <1>3, MissedKept
<1> QED
  BY <1>4, <1>5, <1>6, <1>7, <1>8, <1>9

\* The requeue of a broadcast: one sleeper of the counter is woken and will set
\* SLEEPING, the others sleep on the mutex from now on.
LEMMA BroadcastRequeueStep ==
    ASSUME MonitorInv, NEW t \in Threads, BroadcastRequeue(t), StillWaiting, MonitorTypeOK'
    PROVE  MonitorInv'
<1> USE DEF MonitorInv, MonitorTypeOK
<1> DEFINE m == arg[t]
<1>1. /\ op[t] = "broadcast_requeue" /\ op' = [op EXCEPT ![t] = "idle"] /\ m \in Mutexes
      /\ UNCHANGED <<state, arg, ret, owners, view, pub, seq, seen>>
      /\ FutexRequeue(SeqWord(m), StateWord(m))
  BY DEF BroadcastRequeue, GoTo, condVars
<1>2. StateWord(m) \in Words /\ SeqWord(m) \in Words /\ StateWord(m) # SeqWord(m)
  BY <1>1, FutexWords
<1> HIDE DEF m
<1>3. \/ queue[SeqWord(m)] = {} /\ queue' = queue
      \/ \E u \in queue[SeqWord(m)] :
            /\ queue'[SeqWord(m)] = {}
            /\ queue'[StateWord(m)] = queue[StateWord(m)] \cup (queue[SeqWord(m)] \ {u})
            /\ \A w \in Words : w \notin {SeqWord(m), StateWord(m)} => queue'[w] = queue[w]
  BY <1>1, <1>2 DEF FutexRequeue
<1>4. Others(t) /\ op'[t] = "idle" /\ arg[t] = m
  BY <1>1 DEF Others, m
<1>5. LockInv'
  BY <1>1, OtherLockInv
<1>6. ViewInv'
  BY <1>1, OtherViewInv
<1>7. PlacesOK' /\ SeenOK' /\ DueOK'
  <2>1. PlaceOf(t)'
    BY <1>4 DEF PlaceOf, LockOps
  <2> QED
    BY <1>1, <1>4, <2>1, OthersKept DEF Before
<1>8. \A u \in queue[SeqWord(m)] : u \in Threads /\ op[u] = "cond_asleep" /\ arg[u] = m
  <2> SUFFICES ASSUME NEW u \in queue[SeqWord(m)]
               PROVE  u \in Threads /\ op[u] = "cond_asleep" /\ arg[u] = m
    OBVIOUS
  <2>1. u \in Threads /\ arg[u] \in Mutexes
    BY <1>2
  <2>2. \/ op[u] = "asleep" /\ SeqWord(m) = StateWord(arg[u])
        \/ op[u] = "cond_asleep" /\ SeqWord(m) \in {StateWord(arg[u]), SeqWord(arg[u])}
    BY <1>2, <2>1 DEF SleepersPlaced
  <2> QED
    BY <1>1, <2>1, <2>2, FutexWords
<1>9. \A u \in Threads : \A w \in Words : u \in queue'[w] =>
          \/ u \in queue[w]
          \/ w = StateWord(m) /\ u \in queue[SeqWord(m)]
  BY <1>2, <1>3
<1>10. \A u \in Threads : \A w \in Words : u \in queue[w] => op'[u] = op[u]
  BY <1>1, NotAsleep
<1>11. SleepersPlaced'
  <2> SUFFICES ASSUME NEW u \in Threads, NEW w \in Words, u \in queue'[w]
               PROVE  /\ \/ op'[u] = "asleep" /\ w = StateWord(arg'[u])
                         \/ op'[u] = "cond_asleep" /\ w \in {StateWord(arg'[u]), SeqWord(arg'[u])}
                      /\ \A v \in Words : u \in queue'[v] => v = w
    BY DEF SleepersPlaced
  <2>1. CASE u \in queue[SeqWord(m)]
    <3>1. op'[u] = "cond_asleep" /\ arg'[u] = m
      BY <1>1, <1>2, <1>8, <1>10, <2>1
    <3>2. \A v \in Words : u \in queue[v] => v = SeqWord(m)
      BY <1>2, <2>1 DEF SleepersPlaced
    <3>3. u \notin queue'[SeqWord(m)]
      BY <1>3, <2>1
    <3>4. \A v \in Words : u \in queue'[v] => v = StateWord(m)
      BY <1>9, <3>2, <3>3
    <3> QED
      BY <3>1, <3>4
  <2>2. CASE u \notin queue[SeqWord(m)]
    <3>1. \A v \in Words : u \in queue'[v] => u \in queue[v]
      BY <1>9, <2>2
    <3>2. u \in queue[w] /\ op'[u] = op[u] /\ arg'[u] = arg[u]
      BY <1>1, <1>10, <3>1
    <3> QED
      BY <3>1, <3>2 DEF SleepersPlaced
  <2> QED
    BY <2>1, <2>2
<1>12. RequeuedAreRemembered'
  <2> SUFFICES ASSUME NEW n \in Mutexes, queue'[StateWord(n)] # {}, SLEEPING \notin state'[n]
               PROVE  \E v \in Threads : WillWakeOrMark(v, n)'
    BY DEF RequeuedAreRemembered
  <2>1. CASE n = m /\ queue[SeqWord(m)] # {}
    <3>1. PICK u \in queue[SeqWord(m)] :
              /\ queue'[SeqWord(m)] = {}
              /\ queue'[StateWord(m)] = queue[StateWord(m)] \cup (queue[SeqWord(m)] \ {u})
              /\ \A w \in Words : w \notin {SeqWord(m), StateWord(m)} => queue'[w] = queue[w]
      BY <1>3, <2>1
    <3>2. u \in Threads /\ op'[u] = op[u] /\ arg[u] = m
      BY <1>2, <1>8, <1>10
    <3>3. u \notin queue[StateWord(m)]
      BY <1>2, <3>2 DEF SleepersPlaced
    <3>4. \A v \in Words : u \notin queue[v] => u \notin queue'[v]
      BY <3>1
    <3>5. WillWakeOrMark(u, arg[u])'
      BY <1>1, <1>2, <3>1, <3>2, <3>4, WokenRemembers
    <3> QED
      BY <1>1, <2>1, <3>2, <3>5
  <2>2. CASE ~(n = m /\ queue[SeqWord(m)] # {})
    <3>1. StateWord(n) \in Words /\ (n # m => StateWord(n) # StateWord(m)) /\ StateWord(n) # SeqWord(m)
      BY <1>1, FutexWords
    <3>2. queue'[StateWord(n)] = queue[StateWord(n)]
      BY <1>3, <2>2, <3>1
    <3>3. PICK v \in Threads : WillWakeOrMark(v, n)
      BY <1>1, <3>2 DEF RequeuedAreRemembered
    <3>4. v # t
      BY <1>1, <3>3 DEF WillWakeOrMark, WillWake, LockOps
    <3>5. Awake(v) => Awake(v)'
      BY <1>2, <1>9 DEF Awake
    <3> QED
      BY <1>1, <1>4, <3>3, <3>4, <3>5 DEF WillWakeOrMark, WillWake, Others
  <2> QED
    BY <2>1, <2>2
<1>13. BroadcastMissesNobody'
  <2> SUFFICES ASSUME NEW u \in due', NEW n \in Mutexes, u \in queue'[SeqWord(n)]
               PROVE  \E v \in Threads : op'[v] = "broadcast_requeue" /\ arg'[v] = n
    BY DEF BroadcastMissesNobody
  <2>1. u \in due /\ u \in Threads
    BY DEF StillWaiting
  <2>2. SeqWord(n) \in Words /\ SeqWord(n) # StateWord(m) /\ (n # m => SeqWord(n) # SeqWord(m))
    BY <1>1, FutexWords
  <2>3. n # m /\ u \in queue[SeqWord(n)]
    BY <1>2, <1>3, <2>2
  <2>4. PICK v \in Threads : op[v] = "broadcast_requeue" /\ arg[v] = n
    BY <2>1, <2>3 DEF BroadcastMissesNobody
  <2> QED
    BY <1>4, <2>3, <2>4 DEF Others
<1> QED
  BY <1>5, <1>6, <1>7, <1>11, <1>12, <1>13

-----------------------------------------------------------------------------
(* Calls *)

\* The increment of cond_signal and cond_broadcast, which does not wrap.
LEMMA NotifyIncrements ==
    ASSUME MonitorInv, NEW t \in Threads, NEW m \in Mutexes, NEW next \in MonitorOps,
           Notify(t, m, next), seq[m] < NotifyBound, due' \subseteq Threads
    PROVE  /\ seq' = [seq EXCEPT ![m] = seq[m] + 1]
           /\ seq[m] \in Nat
           /\ MonitorTypeOK'
<1> USE NotifyBoundAssumption, CondAssumption DEF MonitorInv, MonitorTypeOK
<1>1. NextSeq(seq[m]) = seq[m] + 1 /\ seq[m] \in Nat /\ seq[m] + 1 \in 0 .. NotifyBound
  BY DEF NextSeq
<1>2. seq' = [seq EXCEPT ![m] = seq[m] + 1]
  BY <1>1 DEF Notify
<1>3. seq' \in [Mutexes -> 0 .. NotifyBound]
  BY <1>1, <1>2
<1> QED
  BY <1>1, <1>2, <1>3 DEF Notify

\* What a signal and a broadcast have in common.
LEMMA NotifyKeeps ==
    ASSUME MonitorInv, NEW t \in Threads, NEW m \in Mutexes,
           NEW next \in {"signal_wake", "broadcast_requeue"},
           Notify(t, m, next), seq[m] < NotifyBound, due' \subseteq Threads
    PROVE  /\ MonitorTypeOK' /\ LockInv' /\ ViewInv' /\ PlacesOK' /\ SleepersPlaced'
           /\ RequeuedAreRemembered' /\ SeenOK'
           /\ Others(t) /\ op[t] = "idle" /\ op'[t] = next /\ arg'[t] = m
           /\ seq'[m] > seq[m]
           /\ \A n \in Mutexes : seq[n] \in Nat /\ seq'[n] \in Nat /\ seq'[n] >= seq[n]
<1> USE DEF MonitorInv, MonitorTypeOK
<1>0. next \in MonitorOps
  BY DEF MonitorOps
<1>1. /\ seq' = [seq EXCEPT ![m] = seq[m] + 1]
      /\ seq[m] \in Nat
      /\ MonitorTypeOK'
  BY <1>0, NotifyIncrements
<1>2. /\ op[t] = "idle" /\ op'[t] = next /\ arg'[t] = m
      /\ UNCHANGED <<queue, state, ret, spins, owners, view, pub, seen>>
      /\ Others(t)
  BY DEF Notify, Others
<1>3. LockInv'
  BY <1>2, OtherLockInv DEF Others
<1>4. ViewInv'
  BY <1>2, OtherViewInv
<1>5. PlacesOK'
  BY <1>2 DEF PlacesOK, PlaceOf, LockOps, Others
<1>6. SleepersPlaced'
  BY <1>1, <1>2, NotAsleep, SleepersKept
<1>7. RequeuedAreRemembered'
  <2>1. \A n \in Mutexes : ~WillWakeOrMark(t, n)
    BY <1>2 DEF WillWakeOrMark, WillWake, LockOps
  <2> QED
    BY <1>1, <1>2, <2>1, RememberedKept DEF RequeuedAreRemembered
<1>8. /\ seq'[m] > seq[m]
      /\ \A n \in Mutexes : seq[n] \in Nat /\ seq'[n] \in Nat /\ seq'[n] >= seq[n]
  <2>1. \A n \in Mutexes : seq[n] \in Nat
    BY NotifyBoundAssumption
  <2> QED
    BY <1>1, <2>1
<1>9. SeenOK'
  <2> SUFFICES ASSUME NEW u \in Threads, Before(u)'
               PROVE  seen'[u] <= seq'[arg'[u]]
    BY DEF SeenOK
  <2>1. u # t
    BY <1>2 DEF Before
  <2>2. Before(u) /\ arg'[u] = arg[u] /\ seen'[u] = seen[u] /\ arg[u] \in Mutexes
    BY <1>2, <2>1 DEF Before, Others
  <2>3. seen[u] <= seq[arg[u]] /\ seen[u] \in Nat
    BY <2>2, NotifyBoundAssumption DEF SeenOK
  <2> QED
    BY <1>8, <2>2, <2>3
<1> QED
  BY <1>1, <1>2, <1>3, <1>4, <1>5, <1>6, <1>7, <1>8, <1>9

\* A signal: the threads that have loaded an earlier value still have.
LEMMA CondSignalStep ==
    ASSUME MonitorInv, NEW t \in Threads, NEW m \in Mutexes,
           CondSignal(t, m), seq[m] < NotifyBound, StillWaiting
    PROVE  MonitorInv'
<1> USE DEF MonitorInv, MonitorTypeOK
<1>1. due' \subseteq Threads
  BY DEF StillWaiting
<1>2. /\ MonitorTypeOK' /\ LockInv' /\ ViewInv' /\ PlacesOK' /\ SleepersPlaced'
      /\ RequeuedAreRemembered' /\ SeenOK'
      /\ Others(t) /\ op[t] = "idle" /\ op'[t] = "signal_wake"
      /\ \A n \in Mutexes : seq[n] \in Nat /\ seq'[n] \in Nat /\ seq'[n] >= seq[n]
      /\ queue' = queue
  BY <1>1, NotifyKeeps DEF CondSignal, Notify
<1>3. DueOK'
  <2> SUFFICES ASSUME NEW u \in due'
               PROVE  InCondWait(u, arg[u])' /\ (Before(u)' => seen'[u] < seq'[arg'[u]])
    BY DEF DueOK
  <2>1. u \in due /\ InCondWait(u, arg[u])' /\ u \in Threads
    BY DEF StillWaiting, InCondWait
  <2>2. u # t
    BY <1>2, <2>1 DEF InCondWait
  <2>3. (Before(u)' => Before(u)) /\ arg'[u] = arg[u] /\ seen'[u] = seen[u]
    BY <1>2, <2>1, <2>2 DEF Before, Others
  <2>4. seen[u] \in Nat /\ arg[u] \in Mutexes /\ (Before(u) => seen[u] < seq[arg[u]])
    BY <2>1, NotifyBoundAssumption DEF DueOK
  <2> QED
    BY <1>2, <2>1, <2>3, <2>4
<1>4. BroadcastMissesNobody'
  BY <1>2, MissedKept
<1> QED
  BY <1>2, <1>3, <1>4

\* A broadcast: whoever is in cond_wait has loaded an earlier value from now
\* on, or sleeps and is going to be requeued by t.
LEMMA CondBroadcastStep ==
    ASSUME MonitorInv, NEW t \in Threads, NEW m \in Mutexes, ClientBroadcast(t, m)
    PROVE  MonitorInv'
<1> USE DEF MonitorInv, MonitorTypeOK
<1>1. /\ Notify(t, m, "broadcast_requeue") /\ seq[m] < NotifyBound
      /\ due' = due \cup {u \in Threads : InCondWait(u, m)}
      /\ due' \subseteq Threads
  BY DEF ClientBroadcast, CondBroadcast
<1>2. /\ MonitorTypeOK' /\ LockInv' /\ ViewInv' /\ PlacesOK' /\ SleepersPlaced'
      /\ RequeuedAreRemembered' /\ SeenOK'
      /\ Others(t) /\ op[t] = "idle" /\ op'[t] = "broadcast_requeue" /\ arg'[t] = m
      /\ seq'[m] > seq[m]
      /\ \A n \in Mutexes : seq[n] \in Nat /\ seq'[n] \in Nat /\ seq'[n] >= seq[n]
      /\ queue' = queue
  BY <1>1, NotifyKeeps DEF Notify
<1>3. ASSUME NEW u \in due'
      PROVE  /\ u \in Threads \ {t} /\ arg[u] \in Mutexes
             /\ op'[u] = op[u] /\ arg'[u] = arg[u] /\ ret'[u] = ret[u] /\ seen'[u] = seen[u]
             /\ InCondWait(u, arg[u])
             /\ u \notin due => arg[u] = m
  <2>1. InCondWait(u, arg[u]) /\ (u \notin due => arg[u] = m) /\ u \in Threads
    BY <1>1 DEF DueOK, InCondWait
  <2>2. u # t
    BY <1>2, <2>1 DEF InCondWait
  <2> QED
    BY <1>2, <2>1, <2>2 DEF Others
<1>4. DueOK'
  <2> SUFFICES ASSUME NEW u \in due'
               PROVE  InCondWait(u, arg[u])' /\ (Before(u)' => seen'[u] < seq'[arg'[u]])
    BY DEF DueOK
  <2>1. InCondWait(u, arg[u])' /\ (Before(u)' => Before(u))
    BY <1>3 DEF InCondWait, Before
  <2>2. seen[u] \in Nat /\ (Before(u) => seen[u] <= seq[arg[u]])
    BY <1>3, NotifyBoundAssumption DEF SeenOK
  <2>3. CASE u \in due
    BY <1>2, <1>3, <2>1, <2>2, <2>3 DEF DueOK
  <2>4. CASE u \notin due
    BY <1>2, <1>3, <2>1, <2>2, <2>4
  <2> QED
    BY <2>3, <2>4
<1>5. BroadcastMissesNobody'
  <2> SUFFICES ASSUME NEW u \in due', NEW n \in Mutexes, u \in queue'[SeqWord(n)]
               PROVE  \E v \in Threads : op'[v] = "broadcast_requeue" /\ arg'[v] = n
    BY DEF BroadcastMissesNobody
  <2>1. CASE n = m
    BY <1>2, <2>1
  <2>2. CASE n # m
    <3>1. SeqWord(n) \in Words /\ u \in queue[SeqWord(n)]
      BY <1>2, FutexWords
    <3>2. SeqWord(n) = SeqWord(arg[u]) \/ SeqWord(n) = StateWord(arg[u])
      BY <1>3, <3>1 DEF SleepersPlaced
    <3>3. u \in due
      BY <1>3, <2>2, <3>2, FutexWords
    <3>4. PICK v \in Threads : op[v] = "broadcast_requeue" /\ arg[v] = n
      BY <3>1, <3>3 DEF BroadcastMissesNobody
    <3> QED
      BY <1>2, <3>4 DEF Others
  <2> QED
    BY <2>1, <2>2
<1> QED
  BY <1>2, <1>4, <1>5

\* The calls of mutex_lock, mutex_unlock and cond_wait.
LEMMA CallingStep ==
    ASSUME MonitorInv, NEW t \in Threads, NEW m \in Mutexes, op[t] = "idle", StillWaiting,
           \/ HoldsNone(t) /\ MutexLock(t, m, "idle") /\ UNCHANGED condVars
           \/ t \in owners[m] /\ MutexUnlock(t, m, "idle") /\ UNCHANGED condVars
           \/ t \in owners[m] /\ CondWait(t, m)
    PROVE  MonitorInv'
<1> USE DEF MonitorInv, MonitorTypeOK, condVars
<1>1. /\ op' = [op EXCEPT ![t] = op'[t]] /\ arg' = [arg EXCEPT ![t] = m]
      /\ ret' = [ret EXCEPT ![t] = ret'[t]] /\ seen' = [seen EXCEPT ![t] = seen'[t]]
      /\ UNCHANGED <<queue, state, spins, owners, view, pub, seq>>
      /\ \/ op'[t] = "trylock_load" /\ ret'[t] = "idle" /\ seen'[t] = seen[t]
         \/ op'[t] = "unlock_exchange" /\ t \in owners[m] /\ ret'[t] = "idle" /\ seen'[t] = seen[t]
         \/ op'[t] = "unlock_exchange" /\ t \in owners[m] /\ ret'[t] = "cond_spin" /\ seen'[t] = seq[m]
  BY DEF MutexLock, MutexUnlock, CondWait
<1>2. Others(t)
  BY <1>1 DEF Others
<1>3. MonitorTypeOK'
  <2>1. op'[t] \in MonitorOps
    BY <1>1 DEF MonitorOps, MutexOps
  <2>2. ret'[t] \in {"idle", "cond_spin", "cond_fetch_or"} /\ seen'[t] \in 0 .. NotifyBound
    BY <1>1
  <2> QED
    BY <1>1, <2>1, <2>2 DEF StillWaiting
<1>4. LockInv'
  <2>1. ASSUME NEW u \in Threads, op'[u] = "unlock_exchange"
        PROVE  (op[u] = "unlock_exchange" /\ arg'[u] = arg[u]) \/ u \in owners[arg'[u]]
    BY <1>1, <1>2, <2>1 DEF Others
  <2> QED
    BY <1>1, <2>1, OtherLockInv
<1>5. ViewInv'
  BY <1>1, OtherViewInv
<1>6. PlacesOK' /\ SeenOK' /\ DueOK'
  <2>1. PlaceOf(t)'
    BY <1>1 DEF PlaceOf, LockOps
  <2>2. t \notin due
    BY DEF DueOK, InCondWait
  <2>3. Before(t)' => seen'[t] = seq[arg'[t]]
    BY <1>1 DEF Before
  <2> QED
    BY <1>1, <1>2, <1>3, <2>1, <2>2, <2>3, OthersKept
<1>7. SleepersPlaced'
  BY <1>1, <1>2, <1>3, NotAsleep, SleepersKept
<1>8. RequeuedAreRemembered'
  <2>1. \A n \in Mutexes : ~WillWakeOrMark(t, n)
    BY DEF WillWakeOrMark, WillWake, LockOps
  <2> QED
    BY <1>1, <1>2, <1>3, <2>1, RememberedKept DEF RequeuedAreRemembered
<1>9. BroadcastMissesNobody'
  BY <1>1, <1>2, MissedKept
<1> QED
  BY <1>3, <1>4, <1>5, <1>6, <1>7, <1>8, <1>9

-----------------------------------------------------------------------------
(* The invariant *)

\* Initially nobody is in the library.
LEMMA MonitorInvInit == ClientInit => MonitorInv
<1> SUFFICES ASSUME ClientInit PROVE MonitorInv
  OBVIOUS
<1> USE DEF ClientInit, MonitorInit, MutexInit, FutexInit
<1>1. MonitorTypeOK
  BY NotifyBoundAssumption DEF MonitorTypeOK, MonitorOps, LOCKED, SLEEPING
<1>2. LockInv /\ ViewInv
  BY InitLockInv, InitViewInv
<1>3. PlacesOK /\ SeenOK /\ DueOK
  BY DEF PlacesOK, PlaceOf, LockOps, SeenOK, Before, DueOK
<1>4. SleepersPlaced /\ RequeuedAreRemembered /\ BroadcastMissesNobody
  BY FutexWords DEF SleepersPlaced, RequeuedAreRemembered, BroadcastMissesNobody
<1> QED
  BY <1>1, <1>2, <1>3, <1>4 DEF MonitorInv

\* A step of the library.
LEMMA LibraryStepInv ==
    ASSUME MonitorInv, NEW t \in Threads, LibraryStep(t), StillWaiting
    PROVE  MonitorInv'
<1>1. CASE MutexStep(t) /\ UNCHANGED condVars
  <2>1. MonitorTypeOK'
    BY <1>1, MutexStepTypes
  <2>2. CASE UnlockWake(t)
    <3>1. StateWord(arg[t]) \in Words
      BY FutexWords DEF MonitorInv, MonitorTypeOK
    <3>2. Waking(t)
      BY <1>1, <2>2, <3>1 DEF UnlockWake, FutexWake, Waking, condVars
    <3> QED
      BY <2>1, <3>2, WakingStep
  <2> QED
    BY <1>1, <2>1, <2>2, MutexKinds, AskingStep, FallingAsleepStep, TakingStep, ReleasingStep
<1>2. CASE CondStep(t)
  BY <1>2, CondStepTypes, CondKinds, GoingOnStep, SleepingStep, CondFetchOrStep, WakingStep,
     BroadcastRequeueStep
<1> QED
  BY <1>1, <1>2 DEF LibraryStep

\* A thread that wakes up although nobody woke it.
LEMMA SpuriousStepInv ==
    ASSUME MonitorInv, NEW t \in Threads, SpuriousReturn(t), UNCHANGED condVars, StillWaiting
    PROVE  MonitorInv'
<1> USE DEF MonitorInv, MonitorTypeOK
<1>1. PICK w \in Words : t \in queue[w] /\ queue' = [queue EXCEPT ![w] = @ \ {t}]
  BY DEF SpuriousReturn, FutexSpurious
<1>2. UNCHANGED <<state, op, arg, ret, spins, owners, view, pub, seq, seen>>
  BY DEF SpuriousReturn, condVars
<1>3. MonitorTypeOK'
  BY <1>1, <1>2 DEF StillWaiting
<1>4. op[t] \in {"asleep", "cond_asleep"}
  BY <1>1 DEF SleepersPlaced
<1>5. Waking(t)
  BY <1>1, <1>2, <1>4 DEF Waking
<1> QED
  BY <1>3, <1>5, WakingStep

\* A step outside the library changes nothing of it.
LEMMA MonitorInvStutters ==
    ASSUME MonitorInv, UNCHANGED clientVars
    PROVE  MonitorInv'
<1> USE DEF clientVars, monitorVars, mutexVars, condVars, MonitorInv
<1>1. MonitorTypeOK' /\ PlacesOK' /\ SleepersPlaced' /\ SeenOK'
  BY DEF MonitorTypeOK, PlacesOK, PlaceOf, SleepersPlaced, SeenOK, Before
<1>2. LockInv' /\ ViewInv'
  BY OtherLockInv, OtherViewInv
<1>3. DueOK' /\ RequeuedAreRemembered' /\ BroadcastMissesNobody'
  BY DEF DueOK, Before, InCondWait, RequeuedAreRemembered, WillWakeOrMark, WillWake, Awake,
         BroadcastMissesNobody
<1> QED
  BY <1>1, <1>2, <1>3

\* Every step keeps the invariant.
LEMMA MonitorInvNext == MonitorInv /\ [ClientNext]_clientVars => MonitorInv'
<1> SUFFICES ASSUME MonitorInv, [ClientNext]_clientVars PROVE MonitorInv'
  OBVIOUS
<1>1. ASSUME NEW t \in Threads, LibraryStep(t), StillWaiting
      PROVE  MonitorInv'
  BY <1>1, LibraryStepInv
<1>2. ASSUME NEW t \in Threads, SpuriousReturn(t), UNCHANGED condVars, StillWaiting
      PROVE  MonitorInv'
  BY <1>2, SpuriousStepInv
<1>3. ASSUME NEW t \in Threads, NEW m \in Mutexes, ClientCall(t, m)
      PROVE  MonitorInv'
  BY <1>3, CallingStep, CondSignalStep DEF ClientCall
<1>4. ASSUME NEW t \in Threads, NEW m \in Mutexes, ClientBroadcast(t, m)
      PROVE  MonitorInv'
  BY <1>4, CondBroadcastStep
<1>5. CASE UNCHANGED clientVars
  BY <1>5, MonitorInvStutters
<1> QED
  BY <1>1, <1>2, <1>3, <1>4, <1>5 DEF ClientNext

\* The types, the ownership of the mutexes, the places of the sleepers and the
\* loaded values of the counters are right in every reachable state.
THEOREM MonitorInvariant == ClientSpec => []MonitorInv
BY MonitorInvInit, MonitorInvNext, PTL DEF ClientSpec

\* mutex.h keeps its two promises when cond_wait releases and takes the mutex
\* in the middle of its work: the owner is alone, and sees what earlier owners
\* wrote.
THEOREM MonitorExcludes == ClientSpec => [](MutualExclusion /\ OwnerSeesWrites)
<1>1. MonitorInv => MutualExclusion /\ OwnerSeesWrites
  BY DEF MonitorInv, LockInv, ViewInv
<1> QED
  BY <1>1, MonitorInvariant, PTL

\* Nobody sleeps on a mutex without the flag SLEEPING or a thread that is about
\* to set it or to wake somebody; that includes the waiters that a broadcast
\* has moved there.
THEOREM RequeuedAreRememberedAlways == ClientSpec => []RequeuedAreRemembered
<1>1. MonitorInv => RequeuedAreRemembered
  BY DEF MonitorInv
<1> QED
  BY <1>1, MonitorInvariant, PTL

\* A thread that was in cond_wait when a broadcast began does not sleep on the
\* counter once the broadcast has requeued the sleepers.
THEOREM BroadcastMissesNobodyAlways == ClientSpec => []BroadcastMissesNobody
<1>1. MonitorInv => BroadcastMissesNobody
  BY DEF MonitorInv
<1> QED
  BY <1>1, MonitorInvariant, PTL

-----------------------------------------------------------------------------
(* mutex.h with cond.h implements the abstract lock *)

\* The threads asking for each mutex, as MonitorLockRef substitutes them.
Wanted == [m \in Mutexes |-> {t \in Threads : Wanting(t, m)}]

LockStepOrStutter == [MonitorLockRef!LockNext]_<<Wanted, owners>>

\* A step in which nobody starts or stops asking is a stutter of the lock.
LEMMA WantedSame ==
    ASSUME UNCHANGED owners,
           \A u \in Threads, n \in Mutexes : Wanting(u, n)' <=> Wanting(u, n)
    PROVE  LockStepOrStutter
<1>1. \A n \in Mutexes : {u \in Threads : Wanting(u, n)}' = {u \in Threads : Wanting(u, n)}
  OBVIOUS
<1>2. Wanted' = Wanted
  BY <1>1 DEF Wanted
<1> QED
  BY <1>2 DEF LockStepOrStutter

\* A step in which the threads of S start to ask for m is a request.
LEMMA WantedMore ==
    ASSUME UNCHANGED owners, NEW m \in Mutexes, NEW S \in SUBSET Threads,
           \A u \in S : ~Wanting(u, m) /\ u \notin owners[m],
           \A u \in Threads, n \in Mutexes :
               Wanting(u, n)' <=> Wanting(u, n) \/ (n = m /\ u \in S)
    PROVE  LockStepOrStutter
<1>1. ASSUME NEW n \in Mutexes
      PROVE  Wanted'[n] = IF n = m THEN Wanted[m] \cup S ELSE Wanted[n]
  BY DEF Wanted
<1>2. Wanted' = [Wanted EXCEPT ![m] = @ \cup S]
  BY <1>1 DEF Wanted
<1>3. S \cap (Wanted[m] \cup owners[m]) = {}
  BY DEF Wanted
<1>4. MonitorLockRef!Request(S, m)
  BY <1>2, <1>3 DEF MonitorLockRef!Request, Wanted
<1> QED
  BY <1>4 DEF MonitorLockRef!LockNext, LockStepOrStutter

\* The other threads keep asking, or not, as long as nobody leaves the queue of
\* the counter.
LEMMA WantingKept ==
    ASSUME NEW t \in Threads, Others(t), NEW u \in Threads \ {t}, NEW n \in Mutexes,
           u \in queue'[SeqWord(n)] <=> u \in queue[SeqWord(n)]
    PROVE  Wanting(u, n)' <=> Wanting(u, n)
BY DEF Others, Wanting

\* Taking the mutex is granting it.
LEMMA TakingGrants ==
    ASSUME MonitorInv, NEW t \in Threads, Taking(t)
    PROVE  LockStepOrStutter
<1> USE DEF MonitorInv, MonitorTypeOK
<1> DEFINE m == arg[t]
<1>1. /\ m \in Mutexes /\ op[t] \in LockOps /\ op'[t] \in {"idle", "cond_fetch_or"}
      /\ owners[m] = {} /\ owners' = [owners EXCEPT ![m] = {t}]
      /\ UNCHANGED <<queue, arg>> /\ Others(t)
  <2>1. owners[m] = {} /\ owners' = [owners EXCEPT ![m] = {t}] /\ m \in Mutexes
    BY TakingOwns
  <2>2. Others(t)
    BY <2>1 DEF Taking, Others
  <2> QED
    BY <2>1, <2>2, TakingOwns DEF Taking, LockOps
<1>2. ASSUME NEW n \in Mutexes
      PROVE  Wanted'[n] = IF n = m THEN Wanted[m] \ {t} ELSE Wanted[n]
  <2>1. ~Wanting(t, n)'
    BY <1>1 DEF Wanting, LockOps
  <2>2. \A u \in Threads \ {t} : Wanting(u, n)' <=> Wanting(u, n)
    BY <1>1, WantingKept
  <2>3. Wanting(t, n) => n = m
    BY DEF Wanting
  <2> HIDE DEF m
  <2> QED
    BY <1>1, <2>1, <2>2, <2>3 DEF Wanted
<1>3. t \in Wanted[m]
  BY <1>1 DEF Wanted, Wanting
<1> HIDE DEF m
<1>4. Wanted' = [Wanted EXCEPT ![m] = @ \ {t}]
  BY <1>1, <1>2 DEF Wanted
<1>5. MonitorLockRef!Grant(t, m)
  BY <1>1, <1>3, <1>4 DEF MonitorLockRef!Grant, Wanted
<1> QED
  BY <1>1, <1>5 DEF MonitorLockRef!LockNext, LockStepOrStutter

\* The exchange of mutex_unlock is the release.
LEMMA UnlockReleases ==
    ASSUME MonitorInv, NEW t \in Threads, UnlockExchange(t), UNCHANGED condVars
    PROVE  LockStepOrStutter
<1> USE DEF MonitorInv, MonitorTypeOK, condVars
<1> DEFINE m == arg[t]
<1>1. m \in Mutexes /\ op[t] = "unlock_exchange" /\ ret[t] \in {"idle", "cond_spin"}
  BY DEF UnlockExchange, PlacesOK, PlaceOf
<1>2. owners[m] = {t}
  BY <1>1 DEF LockInv, MutualExclusion, UnlockerOwns
<1>3. owners[m] \ {t} = {}
  BY <1>2
<1>4. owners' = [owners EXCEPT ![m] = {}]
  BY <1>3 DEF UnlockExchange
<1>5. UNCHANGED <<queue, arg, ret>> /\ op'[t] \in {"unlock_wake", "idle", "cond_spin"} /\ Others(t)
  BY <1>1, <1>4 DEF UnlockExchange, Others
<1>6. \A u \in Threads, n \in Mutexes : Wanting(u, n)' <=> Wanting(u, n)
  <2>1. \A n \in Mutexes : ~Wanting(t, n) /\ ~Wanting(t, n)'
    BY <1>1, <1>5 DEF Wanting, LockOps
  <2> QED
    BY <1>5, <2>1, WantingKept
<1>7. Wanted' = Wanted
  <2>1. \A n \in Mutexes : {u \in Threads : Wanting(u, n)}' = {u \in Threads : Wanting(u, n)}
    BY <1>6
  <2> QED
    BY <2>1 DEF Wanted
<1> HIDE DEF m
<1>8. MonitorLockRef!Release(t, m)
  BY <1>2, <1>4, <1>7 DEF MonitorLockRef!Release, Wanted
<1> QED
  BY <1>1, <1>8 DEF MonitorLockRef!LockNext, LockStepOrStutter

\* A waiter that is woken starts to ask for the mutex.
LEMMA WakingRequests ==
    ASSUME MonitorInv, NEW t \in Threads, Waking(t)
    PROVE  LockStepOrStutter
<1> USE DEF MonitorInv, MonitorTypeOK
<1>1. PICK w \in Words :
          /\ op[t] = "unlock_wake" => w = StateWord(arg[t])
          /\ \/ queue[w] = {} /\ queue' = queue
             \/ \E u \in queue[w] : queue' = [queue EXCEPT ![w] = @ \ {u}]
  BY DEF Waking
<1>2. /\ UNCHANGED <<arg, ret, owners>> /\ Others(t)
      /\ op[t] \in {"unlock_wake", "signal_wake", "asleep", "cond_asleep"}
      /\ \/ op'[t] = op[t]
         \/ op[t] = "unlock_wake" /\ op'[t] = ret[t]
         \/ op[t] = "signal_wake" /\ op'[t] = "idle"
  BY DEF Waking, Others
<1>3. ret[t] # "cond_fetch_or" \/ op[t] # "unlock_wake"
  BY DEF PlacesOK, PlaceOf
<1>4. ASSUME NEW u \in Threads, NEW n \in Mutexes,
             u \in queue'[SeqWord(n)] <=> u \in queue[SeqWord(n)]
      PROVE  Wanting(u, n)' <=> Wanting(u, n)
  <2>1. CASE u = t
    BY <1>2, <1>3, <1>4, <2>1 DEF Wanting, LockOps
  <2>2. CASE u # t
    BY <1>2, <1>4, <2>2, WantingKept
  <2> QED
    BY <2>1, <2>2
<1>5. CASE \E u \in queue[w], m \in Mutexes :
              w = SeqWord(m) /\ queue' = [queue EXCEPT ![w] = @ \ {u}]
  <2>1. PICK u \in queue[w], m \in Mutexes :
            w = SeqWord(m) /\ queue' = [queue EXCEPT ![w] = @ \ {u}]
    BY <1>5
  <2>2. u \in Threads /\ op[u] = "cond_asleep" /\ arg[u] = m /\ u \notin owners[m]
    <3>1. u \in Threads /\ arg[u] \in Mutexes
      BY <2>1
    <3>2. \/ op[u] = "asleep" /\ w = StateWord(arg[u])
          \/ op[u] = "cond_asleep" /\ w \in {StateWord(arg[u]), SeqWord(arg[u])}
      BY <3>1 DEF SleepersPlaced
    <3>3. op[u] = "cond_asleep" /\ arg[u] = m
      BY <2>1, <3>1, <3>2, FutexWords
    <3> QED
      BY <3>1, <3>3 DEF PlacesOK, PlaceOf
  <2>3. ~Wanting(u, m)
    BY <2>1, <2>2 DEF Wanting, LockOps
  <2>4. op'[u] = op[u]
    BY <1>2, <2>2 DEF Others
  <2>5. Wanting(u, m)'
    BY <1>2, <2>1, <2>2, <2>4 DEF Wanting
  <2>6. \A n \in Mutexes : n # m => SeqWord(n) \in Words /\ SeqWord(n) # w
    BY <2>1, FutexWords
  <2>7. \A v \in Threads, n \in Mutexes :
            Wanting(v, n)' <=> Wanting(v, n) \/ (n = m /\ v \in {u})
    <3> SUFFICES ASSUME NEW v \in Threads, NEW n \in Mutexes, ~(n = m /\ v = u)
                 PROVE  Wanting(v, n)' <=> Wanting(v, n)
      BY <2>5
    <3>1. v \in queue'[SeqWord(n)] <=> v \in queue[SeqWord(n)]
      BY <2>1, <2>6
    <3> QED
      BY <1>4, <3>1
  <2>8. {u} \in SUBSET Threads /\ \A v \in {u} : ~Wanting(v, m) /\ v \notin owners[m]
    BY <2>2, <2>3
  <2> QED
    BY <1>2, <2>7, <2>8, WantedMore
<1>6. CASE ~ \E u \in queue[w], m \in Mutexes :
              w = SeqWord(m) /\ queue' = [queue EXCEPT ![w] = @ \ {u}]
  <2>1. \A n \in Mutexes : queue'[SeqWord(n)] = queue[SeqWord(n)]
    BY <1>1, <1>6, FutexWords
  <2>2. \A u \in Threads, n \in Mutexes : Wanting(u, n)' <=> Wanting(u, n)
    BY <1>4, <2>1
  <2> QED
    BY <1>2, <2>2, WantedSame
<1> QED
  BY <1>5, <1>6

\* A waiter that goes on without having slept, because the counter has moved,
\* starts to ask for the mutex; one that was woken has been asking since then.
LEMMA GoingOnRequests ==
    ASSUME MonitorInv, NEW t \in Threads, GoingOn(t)
    PROVE  LockStepOrStutter
<1> USE DEF MonitorInv, MonitorTypeOK
<1>1. /\ UNCHANGED <<queue, arg, owners>> /\ Others(t) /\ arg[t] \in Mutexes
      /\ t \notin owners[arg[t]]
  BY DEF GoingOn, Others, PlacesOK, PlaceOf
<1>2. \A u \in Threads \ {t}, n \in Mutexes : Wanting(u, n)' <=> Wanting(u, n)
  BY <1>1, WantingKept
<1>3. CASE op'[t] = "trylock_load" /\ op[t] = "cond_spin"
  <2>1. \A n \in Mutexes : ~Wanting(t, n) /\ (Wanting(t, n)' <=> n = arg[t])
    BY <1>1, <1>3 DEF Wanting, LockOps
  <2>2. \A u \in Threads, n \in Mutexes :
            Wanting(u, n)' <=> Wanting(u, n) \/ (n = arg[t] /\ u \in {t})
    BY <1>2, <2>1
  <2>3. {t} \in SUBSET Threads /\ \A u \in {t} : ~Wanting(u, arg[t]) /\ u \notin owners[arg[t]]
    BY <1>1, <2>1
  <2> QED
    BY <1>1, <2>2, <2>3, WantedMore
<1>4. CASE ~(op'[t] = "trylock_load" /\ op[t] = "cond_spin")
  <2>1. \A n \in Mutexes : SeqWord(n) \in Words
    BY FutexWords
  <2>2. \A n \in Mutexes : Wanting(t, n)' <=> Wanting(t, n)
    BY <1>1, <1>4, <2>1 DEF GoingOn, Wanting, LockOps, Awake
  <2> QED
    BY <1>1, <1>2, <2>2, WantedSame
<1> QED
  BY <1>3, <1>4

\* The sleepers of the counter start to ask for the mutex together.
LEMMA RequeueRequests ==
    ASSUME MonitorInv, NEW t \in Threads, BroadcastRequeue(t)
    PROVE  LockStepOrStutter
<1> USE DEF MonitorInv, MonitorTypeOK
<1> DEFINE m == arg[t]
           S == queue[SeqWord(m)]
<1>1. /\ op[t] = "broadcast_requeue" /\ op' = [op EXCEPT ![t] = "idle"] /\ m \in Mutexes
      /\ UNCHANGED <<arg, ret, owners, seen>>
      /\ FutexRequeue(SeqWord(m), StateWord(m))
  BY DEF BroadcastRequeue, GoTo, condVars
<1> HIDE DEF m
<1>2. StateWord(m) \in Words /\ SeqWord(m) \in Words /\ StateWord(m) # SeqWord(m)
  BY <1>1, FutexWords
<1>3. queue'[SeqWord(m)] = {} /\ \A n \in Mutexes : n # m => queue'[SeqWord(n)] = queue[SeqWord(n)]
  <2>1. \A n \in Mutexes : n # m =>
            SeqWord(n) \in Words /\ SeqWord(n) # SeqWord(m) /\ SeqWord(n) # StateWord(m)
    BY <1>1, FutexWords
  <2> QED
    BY <1>1, <1>2, <2>1 DEF FutexRequeue
<1>4. Others(t)
  BY <1>1 DEF Others
<1>5. \A u \in S : u \in Threads \ {t} /\ op[u] = "cond_asleep" /\ arg[u] = m /\ u \notin owners[m]
  <2> SUFFICES ASSUME NEW u \in S
               PROVE  u \in Threads \ {t} /\ op[u] = "cond_asleep" /\ arg[u] = m /\ u \notin owners[m]
    OBVIOUS
  <2>1. u \in Threads /\ arg[u] \in Mutexes
    BY <1>2
  <2>2. \/ op[u] = "asleep" /\ SeqWord(m) = StateWord(arg[u])
        \/ op[u] = "cond_asleep" /\ SeqWord(m) \in {StateWord(arg[u]), SeqWord(arg[u])}
    BY <1>2, <2>1 DEF SleepersPlaced
  <2>3. op[u] = "cond_asleep" /\ arg[u] = m
    BY <1>1, <2>1, <2>2, FutexWords
  <2> QED
    BY <1>1, <2>1, <2>3 DEF PlacesOK, PlaceOf
<1>6. \A n \in Mutexes : ~Wanting(t, n) /\ ~Wanting(t, n)'
  BY <1>1 DEF Wanting, LockOps
<1>7. ASSUME NEW u \in Threads \ {t}, NEW n \in Mutexes
      PROVE  Wanting(u, n)' <=> Wanting(u, n) \/ (n = m /\ u \in S)
  <2>1. CASE n = m /\ u \in S
    <3>1. op'[u] = "cond_asleep" /\ arg'[u] = m
      BY <1>1, <1>5, <2>1
    <3> QED
      BY <1>3, <2>1, <3>1 DEF Wanting
  <2>2. CASE ~(n = m /\ u \in S)
    <3>1. u \in queue'[SeqWord(n)] <=> u \in queue[SeqWord(n)]
      BY <1>3, <2>2
    <3> QED
      BY <1>4, <2>2, <3>1, WantingKept
  <2> QED
    BY <2>1, <2>2
<1>8. \A u \in Threads, n \in Mutexes :
          Wanting(u, n)' <=> Wanting(u, n) \/ (n = m /\ u \in S)
  BY <1>5, <1>6, <1>7
<1>9. S \in SUBSET Threads /\ \A u \in S : ~Wanting(u, m) /\ u \notin owners[m]
  BY <1>2, <1>5 DEF Wanting, LockOps
<1> HIDE DEF S
<1> QED
  BY <1>1, <1>8, <1>9, WantedMore

\* Every step of the library is a step of the abstract lock, or none.
LEMMA LibraryRefines ==
    ASSUME MonitorInv, NEW t \in Threads, LibraryStep(t)
    PROVE  LockStepOrStutter
<1> USE DEF MonitorInv, MonitorTypeOK, condVars
<1>1. ASSUME UNCHANGED <<owners, arg>>, Others(t),
             \A n \in Mutexes : queue'[SeqWord(n)] = queue[SeqWord(n)],
             \/ op[t] \in LockOps /\ op'[t] \in LockOps
             \/ op[t] \notin LockOps \cup {"cond_asleep"} /\ op'[t] \notin LockOps \cup {"cond_asleep"}
      PROVE  LockStepOrStutter
  <2>1. \A n \in Mutexes : Wanting(t, n)' <=> Wanting(t, n)
    BY <1>1 DEF Wanting, LockOps
  <2>2. \A u \in Threads, n \in Mutexes : Wanting(u, n)' <=> Wanting(u, n)
    BY <1>1, <2>1, WantingKept
  <2> QED
    BY <1>1, <2>2, WantedSame
<1>2. CASE MutexStep(t) /\ UNCHANGED condVars
  <2>1. CASE Asking(t)
    <3>1. Others(t)
      BY <2>1 DEF Asking, Others
    <3> QED
      BY <1>1, <2>1, <3>1 DEF Asking
  <2>2. CASE FallingAsleep(t)
    <3>1. Others(t)
      BY <2>2 DEF FallingAsleep, Others
    <3>2. \A n \in Mutexes : SeqWord(n) \in Words /\ SeqWord(n) # StateWord(arg[t])
      BY FutexWords
    <3>3. \A n \in Mutexes : queue'[SeqWord(n)] = queue[SeqWord(n)]
      BY <2>2, <3>2 DEF FallingAsleep
    <3>4. op[t] \in LockOps /\ op'[t] \in LockOps
      BY <2>2 DEF FallingAsleep, LockOps
    <3> QED
      BY <1>1, <2>2, <3>1, <3>3, <3>4 DEF FallingAsleep
  <2>3. CASE UnlockWake(t)
    <3>1. StateWord(arg[t]) \in Words
      BY FutexWords
    <3>2. Waking(t)
      BY <1>2, <2>3, <3>1 DEF UnlockWake, FutexWake, Waking
    <3> QED
      BY <3>2, WakingRequests
  <2> QED
    BY <1>2, <2>1, <2>2, <2>3, MutexKinds, TakingGrants, UnlockReleases
<1>3. CASE CondStep(t)
  <2>1. CASE Sleeping(t)
    <3>1. /\ Others(t) /\ UNCHANGED <<arg, owners>>
          /\ op[t] = "cond_spin" /\ op'[t] = "cond_asleep" /\ arg[t] \in Mutexes
      BY <2>1 DEF Sleeping, Others
    <3>2. /\ SeqWord(arg[t]) \in Words
          /\ queue'[SeqWord(arg[t])] = queue[SeqWord(arg[t])] \cup {t}
          /\ \A w \in Words : w # SeqWord(arg[t]) => queue'[w] = queue[w]
      BY <2>1, <3>1, FutexWords DEF Sleeping
    <3>3. \A n \in Mutexes : ~Wanting(t, n) /\ ~Wanting(t, n)'
      BY <3>1, <3>2 DEF Wanting, LockOps
    <3>4. \A u \in Threads \ {t}, n \in Mutexes :
              u \in queue'[SeqWord(n)] <=> u \in queue[SeqWord(n)]
      BY <3>1, <3>2, FutexWords
    <3>5. \A u \in Threads, n \in Mutexes : Wanting(u, n)' <=> Wanting(u, n)
      BY <3>1, <3>3, <3>4, WantingKept
    <3> QED
      BY <3>1, <3>5, WantedSame
  <2>2. CASE CondFetchOr(t)
    <3>1. Others(t) /\ UNCHANGED <<arg, owners, queue>> /\ op[t] = "cond_fetch_or" /\ op'[t] = "idle"
      BY <2>2 DEF CondFetchOr, Others
    <3>2. op[t] \notin LockOps \cup {"cond_asleep"} /\ op'[t] \notin LockOps \cup {"cond_asleep"}
      BY <3>1 DEF LockOps
    <3> QED
      BY <1>1, <3>1, <3>2
  <2> QED
    BY <1>3, <2>1, <2>2, CondKinds, GoingOnRequests, WakingRequests, RequeueRequests
<1> QED
  BY <1>2, <1>3 DEF LibraryStep

\* So is every call.
LEMMA CallRefines ==
    ASSUME MonitorInv, NEW t \in Threads, NEW m \in Mutexes,
           ClientCall(t, m) \/ ClientBroadcast(t, m)
    PROVE  LockStepOrStutter
<1> USE DEF MonitorInv, MonitorTypeOK
<1>1. /\ op[t] = "idle" /\ arg' = [arg EXCEPT ![t] = m] /\ UNCHANGED <<queue, owners>>
      /\ \A u \in Threads \ {t} : op'[u] = op[u]
      /\ \/ op'[t] = "trylock_load" /\ t \notin owners[m]
         \/ op'[t] \in {"unlock_exchange", "signal_wake", "broadcast_requeue"}
  BY DEF ClientCall, ClientBroadcast, HoldsNone, MutexLock, MutexUnlock, CondWait, CondSignal,
         CondBroadcast, Notify
<1>2. \A u \in Threads \ {t}, n \in Mutexes : Wanting(u, n)' <=> Wanting(u, n)
  BY <1>1 DEF Wanting
<1>3. \A n \in Mutexes : ~Wanting(t, n)
  BY <1>1 DEF Wanting, LockOps
<1>4. CASE op'[t] = "trylock_load" /\ t \notin owners[m]
  <2>1. \A n \in Mutexes : Wanting(t, n)' <=> n = m
    BY <1>1, <1>4 DEF Wanting, LockOps
  <2>2. \A u \in Threads, n \in Mutexes :
            Wanting(u, n)' <=> Wanting(u, n) \/ (n = m /\ u \in {t})
    BY <1>2, <1>3, <2>1
  <2>3. {t} \in SUBSET Threads /\ \A u \in {t} : ~Wanting(u, m) /\ u \notin owners[m]
    BY <1>3, <1>4
  <2> QED
    BY <1>1, <2>2, <2>3, WantedMore
<1>5. CASE op'[t] \in {"unlock_exchange", "signal_wake", "broadcast_requeue"}
  <2>1. \A n \in Mutexes : ~Wanting(t, n)'
    BY <1>5 DEF Wanting, LockOps
  <2>2. \A u \in Threads, n \in Mutexes : Wanting(u, n)' <=> Wanting(u, n)
    BY <1>2, <1>3, <2>1
  <2> QED
    BY <1>1, <2>2, WantedSame
<1> QED
  BY <1>1, <1>4, <1>5

\* And every step of the system.
LEMMA MonitorRefines ==
    ASSUME MonitorInv, [ClientNext]_clientVars
    PROVE  LockStepOrStutter
<1>1. ASSUME NEW t \in Threads, LibraryStep(t)
      PROVE  LockStepOrStutter
  BY <1>1, LibraryRefines
<1>2. ASSUME NEW t \in Threads, SpuriousReturn(t), UNCHANGED condVars
      PROVE  LockStepOrStutter
  <2>1. PICK w \in Words : t \in queue[w] /\ queue' = [queue EXCEPT ![w] = @ \ {t}]
    BY <1>2 DEF SpuriousReturn, FutexSpurious, MonitorInv, MonitorTypeOK
  <2>2. op[t] \in {"asleep", "cond_asleep"}
    BY <2>1 DEF MonitorInv, SleepersPlaced
  <2>3. Waking(t)
    BY <1>2, <2>1, <2>2 DEF SpuriousReturn, Waking, condVars
  <2> QED
    BY <2>3, WakingRequests
<1>3. ASSUME NEW t \in Threads, NEW m \in Mutexes, ClientCall(t, m) \/ ClientBroadcast(t, m)
      PROVE  LockStepOrStutter
  BY <1>3, CallRefines
<1>4. CASE UNCHANGED clientVars
  <2>1. \A u \in Threads, n \in Mutexes : Wanting(u, n)' <=> Wanting(u, n)
    BY <1>4 DEF clientVars, monitorVars, mutexVars, Wanting
  <2> QED
    BY <1>4, <2>1, WantedSame DEF clientVars, monitorVars, mutexVars
<1> QED
  BY <1>1, <1>2, <1>3, <1>4 DEF ClientNext

\* mutex.h and cond.h together implement the safety part of the abstract lock:
\* cond_wait gives the mutex back when it calls mutex_unlock, and asks for it
\* again when it is woken or moved to the mutex.
THEOREM MonitorImplements == ClientSpec => MonitorLockRef!LockSafety
<1>1. ClientInit => MonitorLockRef!LockInit
  BY DEF ClientInit, MonitorInit, MutexInit, MonitorLockRef!LockInit, Wanting, LockOps
<1>2. MonitorInv /\ [ClientNext]_clientVars => [MonitorLockRef!LockNext]_MonitorLockRef!lockVars
  BY MonitorRefines DEF LockStepOrStutter, MonitorLockRef!lockVars, Wanted
<1> QED
  BY <1>1, <1>2, MonitorInvariant, PTL DEF ClientSpec, MonitorLockRef!LockSafety
=============================================================================
