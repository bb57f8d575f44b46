SPECIFICATION Spec
CONSTANTS
    a1 = a1
    a2 = a2
    w = w
    Threads = {t1, t2}
    Items = {a1, a2, w}
    Wrappers = {w}
    KeyOf <- MCKeyOf
    SizeOf <- MCSizeOf
    Limits = {0, 2, 3}
    None = None
    MaxBelow = 2
INVARIANTS SizeTracked LimitKept NeverStuck
PROPERTY FetchedExclusive
SYMMETRY Symmetry
CHECK_DEADLOCK FALSE
