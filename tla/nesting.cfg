CONSTANTS
    Threads = {t1}
    PMs = {p1, p2}
    Hosted = {p2}
    Addrs = {a1, a2}
    Analyses = {A, B}
    Units = {u}
    Boxes = {1, 2, 3, 4, 5, 6}
    None = None
    UsedKinds = {"cgscc"}
    MaxDepth = 5
    DropMayPanic = TRUE
    Exclusive = TRUE
SPECIFICATION Spec
CHECK_DEADLOCK FALSE
SYMMETRY Symmetric
INVARIANTS TypeOK RefsLive CallbacksHoldNoLock
