SPECIFICATION FairSpec
CONSTANTS
    Threads = {t1, t2, t3}
    Nodes = {n1, n2}
    Null = Null
INVARIANT ContentLinked
PROPERTIES ImplementsFreeList LockedPopReturns
