SPECIFICATION FairSpec
CONSTANTS
    Names = {n1, n2}
    ItemTypes = {sg, up}
    Callbacks = {sg}
    NameFilter = {n1}
    Watch = {TRUE}
    SetsWatch = FALSE
    ServerCloses = FALSE
    None = None
    MaxChanges = 1
CHECK_DEADLOCK FALSE
INVARIANT
    NamesCanBeGiven
