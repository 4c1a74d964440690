CONSTANTS
    i1 = i1
    i2 = i2
    a = a
    b = b
    None = None
    Images = {i1}
    Configs = {a}
    Lagging = {"Component", "Deployment", "Service", "Status"}
    Disturbances = {"force", "refresh", "repair", "service", "delete", "leftover", "fail", "crash"}
SPECIFICATION FairSpec
CHECK_DEADLOCK FALSE
INVARIANTS
    NothingForgotten
    TypeOK
PROPERTIES
    ForceConsumed
    FetchesEnd
    RefreshServed
    OwnsWhatItNeeds
