SPECIFICATION MutexSpec
CONSTANTS
    Threads = {t1, t2, t3}
    Mutexes = {m1}
    MUTEX_SPINS = 2
INVARIANTS
    MutexTypeOK
    MutualExclusion
    OwnerSeesWrites
    SleepersAreRemembered
PROPERTY ImplementsLock
