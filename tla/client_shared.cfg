SPECIFICATION FairSpec
CONSTANTS
    Threads = {t1, t2}
    ItemTypes = {sg}
    Names = {n1}
    Vals = {v1, v2}
    EmptyName = EmptyName
    None = None
    MaxChanges = 0
INVARIANTS
    OutcomeKnown
    OneRpcPerStub
PROPERTY
    CallsReturn
    StoreSpec
