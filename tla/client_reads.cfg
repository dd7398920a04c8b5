SPECIFICATION FairSpec
CONSTANTS
    Threads = {t1}
    ItemTypes = {sg, up}
    Names = {n1, n2}
    Vals = {v1}
    EmptyName = EmptyName
    None = None
    MaxChanges = 2
INVARIANTS
    GetSound
    GetComplete
    ListFaithful
    ShownWasStored
    ClientInv
PROPERTIES
    CallsReturn
    StoreSpec
