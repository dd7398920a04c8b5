SPECIFICATION FairSpec
CONSTANTS
    Names = {n1, n2}
    ItemTypes = {sg, up}
    Callbacks = {sg}
    NameFilter = {}
    Watch = {TRUE, FALSE}
    SetsWatch = TRUE
    ServerCloses = TRUE
    None = None
    MaxChanges = 3
CHECK_DEADLOCK FALSE
INVARIANTS
    NoneSkipped
    SnapshotComplete
    CaughtUp
    SecondFinish
    SubscriberInv
PROPERTY
    Converges
