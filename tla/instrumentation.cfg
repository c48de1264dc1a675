SPECIFICATION Spec
CONSTANTS
    c1 = c1
    c2 = c2
    u1 = u1
    u2 = u2
    None = None
    Contexts <- MCContexts
    Units <- MCUnits
    Versions <- AllVersions
    MaxObjects = 3
INVARIANTS
    TypeOK
    PointersLive
    CallbacksLive
PROPERTIES
    RetiresOnSwitchOnly
CHECK_DEADLOCK FALSE
