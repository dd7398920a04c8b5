SPECIFICATION FairSpec
CONSTANTS
    Threads = {p1, p2}
    ItemTypes <- MCTypes
    Names <- MCNames
    Vals <- MCVals
    Groups <- MCGroups
    TypeOf <- MCTypeOf
    EmptyName = EmptyName
    None = None
    Kinds = {"c", "cpp"}
    MaxFaults = 1
    MaxRuns = 3
CHECK_DEADLOCK FALSE
INVARIANTS
    OneHolder
    HolderUndisturbed
    NoneLeftBare
    RunRepairs
    NothingLeft
    LeftoversStay
    ProgramsInv
PROPERTIES
    CallsComeToEnd
    OnlyHolderChanges
