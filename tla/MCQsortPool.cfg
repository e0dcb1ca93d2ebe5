SPECIFICATION Spec
CONSTANTS
    SMALL = 3
    NINTHER = 6
    W = 4
    Calls <- MCCalls
    NULL = NULL
INVARIANTS
    WokenForAReason
    PiecesDisjoint
    NothingLost
    IdleIsCounted
    PoolOutlivesThreads
    Sorts
PROPERTY Returns
