SPECIFICATION Spec
CONSTANTS
    Threads = {t1, t2}
    Res = {r1, r2}
    Refs = {k1, k2}
    NoRes = NoRes
    NoHandle = NoHandle
    NoLimit = NoLimit
    Generations = 2
    MinHandles = 1
    Limits = {1}
    ConcurrentConfig = TRUE
SYMMETRY Symmetry
INVARIANTS HeldHandlesValid
