CONSTANTS
    a = a
    b = b
    v1 = v1
    v2 = v2
    x = x
    y = y
    None = None
    Components = {a, b}
    Versions = {v1}
    Configs = {x}
    Cap = 2
    Lagging = {}
    Disturbances = {"upgrade", "break", "exposer", "deleteMap", "deleteDeployment", "crash"}
    MaxChanges = None
SPECIFICATION Spec
CHECK_DEADLOCK FALSE
SYMMETRY TwoComponents
INVARIANTS
    TypeOK
PROPERTIES
    NoEarlyDrop
