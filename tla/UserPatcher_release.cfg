CONSTANTS
    t1 = t1
    t2 = t2
    t3 = t3
    r1 = r1
    r2 = r2
    r3 = r3
    None = None
    Threads = {t1, t2, t3}
    Requests = {r1, r2, r3}
    SlotCount = 2
SPECIFICATION Spec
SYMMETRY Symmetry
CHECK_DEADLOCK FALSE
INVARIANT
    StoredAreLive
