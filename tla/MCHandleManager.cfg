SPECIFICATION Spec
CONSTANTS
    Threads = {t1, t2, t3}
    Res = {r1, r2}
    Refs = {k1, k2, k3}
    NoRes = NoRes
    NoHandle = NoHandle
    NoLimit = NoLimit
    Generations = 4
    MinHandles = 1
    Limits = {1, 2}
    ConcurrentConfig = FALSE
SYMMETRY Symmetry
INVARIANTS HeldHandlesValid RefCountExact UsedCountExact StaleHandleRejected HardLimit
