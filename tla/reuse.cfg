CONSTANTS
    Threads = {t1, t2}
    PMs = {p1, p2, p3, p4}
    Hosted = {p4}
    Addrs = {a1, a2}
    Analyses = {A}
    Units = {u}
    Boxes = {1, 2, 3, 4}
    None = None
    UsedKinds = {"loop"}
    MaxDepth = 3
    DropMayPanic = TRUE
    Exclusive = TRUE
SPECIFICATION Spec
CHECK_DEADLOCK FALSE
SYMMETRY Symmetric
INVARIANTS ServedByOwner RunningPassRegistered NoStaleEntries
PROPERTIES KeptUntilDrop TablesOfTheirOwn
