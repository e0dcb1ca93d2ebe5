SPECIFICATION Spec
CONSTANTS
    N_THREADS = 3
    nprints = 2
    Threads = {0, 1, 2}
    Queues = {0, 1, 2}
    Items <- MCItems
    Owner <- MCOwner
    DoneWork = DoneWork
    NULL = NULL
    EMPTY = EMPTY
    ABORT = ABORT
    BUSY = BUSY
INVARIANTS
    RunsAtMostOnce
    CountIsOutstanding
    NoUseAfterFree
PROPERTY Termination
