SPECIFICATION Spec
CONSTANTS
    Threads = {t1, t2, t3}
    Tids = {i1, i2, i3}
    Slots = {s1, s2, s3}
    Addrs = {a1, a2}
    None = None
    ClosesBeforeExit = TRUE
SYMMETRY Symmetry
INVARIANTS
    OwnConnection
    NoOrphanSlot
PROPERTIES
    OnlyOwnerCloses
    ThreadLocal
