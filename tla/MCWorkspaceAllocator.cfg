SPECIFICATION AllocSpec
CONSTANTS
    Sizes = {0, 1, 3}
    Alignments = {1, 4}
    BaseAlignment = 2
    Bases = {4, 6}
    MaxRequests = 3
INVARIANTS Covered BlocksDisjoint
CHECK_DEADLOCK FALSE
