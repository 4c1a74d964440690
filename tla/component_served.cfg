CONSTANTS
    i1 = i1
    i2 = i2
    a = a
    b = b
    None = None
    Images = {i1, i2}
    Configs = {a, b}
    Lagging = {"Component", "Service"}
    Disturbances = {"edit", "force", "pods", "fail", "clearFails", "crash", "deployment"}
SPECIFICATION FairSpec
CHECK_DEADLOCK FALSE
INVARIANTS
    NothingForgotten
    RecordedIsServed
PROPERTIES
    SettlesOnSpecImage
