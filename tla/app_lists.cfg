CONSTANTS
    a = a
    v1 = v1
    None = None
    Exposers = {1, 2}
    UIs <- TwoUIs
    Components = {a}
    Versions = {v1}
    Cap = 1
    Moving = {1}
    Disturbances = {"status", "fail"}
SPECIFICATION FairSpec
CHECK_DEADLOCK FALSE
INVARIANTS
    TypeOK
    NoLostEvent
PROPERTIES
    OthersLeftAlone
    ListsConverge
