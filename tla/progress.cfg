CONSTANTS
    Threads = {t1, t2}
    PMs = {p1, p2, p3}
    Hosted = {p2}
    Addrs = {a1, a2}
    Analyses = {A}
    Units = {u}
    Boxes = {1, 2, 3, 4, 5}
    None = None
    UsedKinds = {"cgscc"}
    MaxDepth = 3
    DropMayPanic = TRUE
    Exclusive = TRUE
SPECIFICATION FairSpec
CHECK_DEADLOCK FALSE
PROPERTY CallsReturn
