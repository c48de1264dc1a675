CONSTANTS
    Threads = {t1}
    PMs = {p1, p2}
    Hosted = {p1}
    Addrs = {a1}
    Analyses = {A}
    Units = {u}
    Boxes = {1, 2, 3}
    None = None
    UsedKinds = {"cgscc"}
    MaxDepth = 3
    DropMayPanic = FALSE
    Exclusive = TRUE
SPECIFICATION Spec
CHECK_DEADLOCK FALSE
INVARIANT ServedByOwnManager
