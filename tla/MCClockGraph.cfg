SPECIFICATION Spec
CONSTANTS
    N_NODES = 2
    Threads = {0, 1, 2}
    Mutexes = {0, 1, 2}
    MUTEX_SPINS = 1
    COND_SPINS = 1
    SeqValues = 8
INVARIANTS
    NoSignalOverwritten
    NoLostWakeup
PROPERTIES
    ClockCountsToTheEnd
    Termination
