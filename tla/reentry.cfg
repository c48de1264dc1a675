CONSTANTS
    Threads = {t1}
    PMs = {p1}
    Hosted = {}
    Addrs = {a1}
    Analyses = {A, B}
    Units = {u}
    Boxes = {1, 2, 3, 4}
    None = None
    UsedKinds = {"cgscc"}
    MaxDepth = 4
    DropMayPanic = FALSE
    Exclusive = TRUE
SPECIFICATION Spec
CHECK_DEADLOCK FALSE
INVARIANT NoReentry
