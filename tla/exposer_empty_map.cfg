CONSTANTS
    e1 = e1
    e2 = e2
    c1 = c1
    c2 = c2
    v1 = v1
    v2 = v2
    r1 = r1
    r2 = r2
    RuntimeConfiguration <- SettingsOnly
    None = None
    Exposers = {e1, e2}
    Components = {c1}
    Values = {v1}
    Routes = {}
    Lagging = {}
    Disturbances = {"delete", "fail"}
    MaxEdits = None
SPECIFICATION FairSpec
CHECK_DEADLOCK FALSE
PROPERTIES
    EmptyMapIsDeleted
