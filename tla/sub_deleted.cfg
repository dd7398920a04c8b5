SPECIFICATION FairSpec
CONSTANTS
    Names = {n1}
    ItemTypes = {sg}
    Callbacks = {sg}
    NameFilter = {}
    Watch = {TRUE}
    SetsWatch = FALSE
    ServerCloses = FALSE
    None = None
    MaxChanges = 2
CHECK_DEADLOCK FALSE
PROPERTY
    DeletionsReported
