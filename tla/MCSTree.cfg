SPECIFICATION Spec
CONSTANTS
    Keys = {1, 2, 3, 4, 5}
    NULL = 0
INVARIANTS
    ParentsAgree
    SearchTree
PROPERTIES
    ImplementsSet
    Returns
