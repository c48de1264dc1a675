SPECIFICATION Spec
CONSTANTS
    c1 = c1
    c2 = c2
    u1 = u1
    u2 = u2
    None = None
    Contexts <- MCContexts
    Units <- MCUnits
    Versions <- Latest
    MaxObjects = 3
INVARIANTS
    RunReachesItsSI
CHECK_DEADLOCK FALSE
