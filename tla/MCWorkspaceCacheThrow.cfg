SPECIFICATION LateSpec
CONSTANTS
    Mems = {m1, m2}
    Streams = {s1, s2}
    NoStream = NoStream
    Reqs <- MCReqs
    NoReq = NoReq
    MaxJobs = 2
    Threads = {t1}
    NoMem = NoMem
    Kinds = {"cuda"}
    MaxLost = 1
INVARIANT NoOverlap
SYMMETRY Symmetry
