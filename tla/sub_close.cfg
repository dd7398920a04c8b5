SPECIFICATION FairSpec
CONSTANTS
    Names = {n1}
    ItemTypes = {sg, up}
    Callbacks = {sg}
    NameFilter = {}
    Watch = {TRUE}
    SetsWatch = FALSE
    ServerCloses = TRUE
    None = None
    MaxChanges = 1
CHECK_DEADLOCK FALSE
INVARIANT
    ContinuesAfterClose
