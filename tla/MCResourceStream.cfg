SPECIFICATION FairSpec
CONSTANTS
    Threads = {t1, t2}
    Main = t1
    WithThreads = {t1}
    Streams = {s0, s1}
    Owned = {s1}
    Default = s0
    Resources = {r1}
    None = None
    MaxJobs = 2
    MaxClosures = 2
    MaxNested = 1
    MaxUncounted = 1
INVARIANTS UsesOrdered UsedIsHeld AuxKept CleanupComplete
PROPERTIES ReusedIdle CallsReturn
CHECK_DEADLOCK FALSE
