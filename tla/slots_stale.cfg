SPECIFICATION Spec
CONSTANTS
    Threads = {t1, t2}
    Tids = {i1}
    Slots = {s1}
    Addrs = {a1}
    None = None
    ClosesBeforeExit = FALSE
INVARIANT
    OwnConnection
