SPECIFICATION FairSpec
CONSTANTS
    Threads = {t1, t2}
    Tids = {i1, i2}
    Slots = {s1, s2}
    Addrs = {a1}
    None = None
    ClosesBeforeExit = FALSE
INVARIANTS
    SlotStaysWhileUsed
    LocksReleased
    NoWaitingInLine
    RegistryInv
PROPERTIES
    ReadersReturn
    WritersReturn
