CONSTANTS
    a = a
    b = b
    v1 = v1
    v2 = v2
    x = x
    y = y
    None = None
    Components = {a, b}
    Versions = {v1}
    Configs = {x, y}
    Cap = 1
    Lagging = {"ConfigMap"}
    Disturbances = {"edit", "break", "upgrade", "remove", "exposer", "delete", "deleteService", "deleteIngress", "fail", "crash"}
    MaxChanges = 2
SPECIFICATION FairSpec
CHECK_DEADLOCK FALSE
INVARIANTS
    NothingForgotten
PROPERTIES
    AppsConverge
    TimesAreDropped
    SettlesReady
