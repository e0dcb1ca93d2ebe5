SPECIFICATION Spec
CONSTANTS
    N_THREADS = 2
    Setups <- RoundsOrItems
    N_HANDLES = 3
    MaxTicket = 6
    NULL = NULL
INVARIANTS
    EveryHandleSeen
    RoundsApart
    RoundVerified
PROPERTY DriverEnds
