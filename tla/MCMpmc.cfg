SPECIFICATION Spec
CONSTANTS
    Setups <- OneCellOrTwo
    N_DEQ = 2
    N_ENQ = 2
    MaxTicket = 2
    MaxNode = 7
    NULL = NULL
    Threads = {1, 2, 3, 4}
INVARIANTS
    NoUseAfterFree
    ListIsConsecutive
    SleeperIsKnown
    OneReclaimer
PROPERTY ImplementsQueue
