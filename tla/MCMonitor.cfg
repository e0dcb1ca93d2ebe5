SPECIFICATION ClientSpec
CONSTANTS
    Threads = {t1, t2, t3}
    Mutexes = {m1}
    MUTEX_SPINS = 1
    COND_SPINS = 1
    SeqValues = 4
    NotifyBound = 2
INVARIANTS
    RequeuedAreRemembered
    BroadcastMissesNobody
PROPERTY MonitorImplementsLock
