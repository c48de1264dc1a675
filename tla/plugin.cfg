SPECIFICATION Spec
CONSTANTS
    c1 = c1
    c2 = c2
    fnPass = fnPass
    sccPass = sccPass
    B1 = B1
    B2 = B2
    P1 = P1
    P2 = P2
    None = None
    Closures <- MCClosures
    Passes <- MCPasses
    PassLevel <- MCPassLevel
    Builders <- MCBuilders
    Pipes <- MCPipes
SYMMETRY Symmetric
INVARIANTS
    TypeOK
    NothingLeaks
PROPERTIES
    BoxesOwned
CHECK_DEADLOCK FALSE
