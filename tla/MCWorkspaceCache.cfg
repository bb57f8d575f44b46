SPECIFICATION Spec
CONSTANTS
    Mems = {m1, m2}
    Streams = {s1, s2}
    NoStream = NoStream
    Reqs <- MCReqs
    NoReq = NoReq
    MaxJobs = 3
    Threads = {t1, t2}
    NoMem = NoMem
    Kinds = {"host", "pinned", "cuda"}
    MaxLost = 1
INVARIANTS OnePlace NoOverlap GlobalReady FreedUnused OutstandingExact
PROPERTY MissIsReal
SYMMETRY Symmetry
