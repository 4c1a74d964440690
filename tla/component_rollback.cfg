CONSTANTS
    i1 = i1
    i2 = i2
    a = a
    b = b
    None = None
    Images = {i1, i2}
    Configs = {a, b}
    Lagging = {}
    Disturbances = {"edit"}
SPECIFICATION FairSpec
CHECK_DEADLOCK FALSE
PROPERTIES
    RecoversFromFailure
