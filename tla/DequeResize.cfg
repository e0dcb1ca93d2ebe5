SPECIFICATION Spec
CONSTANTS
    Thieves = {p1, p2}
    Worker = w
    EMPTY = EMPTY
    ABORT = ABORT
    BUSY = BUSY
    SizeT = 8
    Machines <- GrowAndReorder
    MaxPush = 4
    MaxArray = 2
INVARIANT NoUninitialisedEntry
SYMMETRY ThiefSymmetry
