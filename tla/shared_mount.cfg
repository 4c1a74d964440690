CONSTANTS
    c1 = c1
    e1 = e1
    v1 = v1
    i1 = i1
    i2 = i2
    a = a
    None = None
    Component = c1
    Exposers = {e1}
    Values = {v1}
    Images = {i1, i2}
    Configs = {a}
    Served <- AllServeA
    First = i1
    Lagging = {"Deployment", "Service"}
    Disturbances = {"edit", "leftover", "deleteReady"}
    MaxChanges = 1
SPECIFICATION FairSpec
CHECK_DEADLOCK FALSE
INVARIANTS
    TypeOK
    NothingForgotten
PROPERTIES
    NoLostUpdate
    MountConverges
