SPECIFICATION Spec
CONSTANTS
    f = f
    g = g
    h = h
    p = p
    q = q
    r = r
    None = None
    Functions <- MCFunctions
    SCCs <- MCSCCs
    Passes <- MCPasses
    Adapters <- MCAdapters
    MaxEntries = 3
INVARIANTS
    TypeOK
    PassesInvalidate
    BoxesOutlivePipeline
    NothingLeaks
SYMMETRY Symmetric
CHECK_DEADLOCK FALSE
