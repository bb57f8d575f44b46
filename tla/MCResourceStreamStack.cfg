SPECIFICATION FairSpec
CONSTANTS
    Threads = {t1, t2}
    Main = t1
    WithThreads = {t1, t2}
    Streams = {s0, s1}
    Owned = {s1}
    Default = s0
    Resources = {r1}
    None = None
    MaxJobs = 1
    MaxClosures = 1
    MaxNested = 1
    MaxUncounted = 0
INVARIANT CurrentAlive
CHECK_DEADLOCK FALSE
