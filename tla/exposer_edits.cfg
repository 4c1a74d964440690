CONSTANTS
    e1 = e1
    e2 = e2
    c1 = c1
    c2 = c2
    v1 = v1
    v2 = v2
    r1 = r1
    r2 = r2
    RuntimeConfiguration <- Rendered
    None = None
    Exposers = {e1}
    Components = {c1, c2}
    Values = {v1, v2}
    Routes = {r1, r2}
    Lagging = {"ConfigMap"}
    Disturbances = {"edit", "dependency", "ingress"}
    MaxEdits = 2
SPECIFICATION FairSpec
CHECK_DEADLOCK FALSE
INVARIANTS
    NothingForgotten
PROPERTIES
    EntriesConverge
    MountConverges
    IngressConverges
