SPECIFICATION Spec
CONSTANTS
    Callers = {c1}
    Loops = {l1, l2}
    Tasks = {t1}
    Services = {sync}
    Closers = {x1, x2}
    Depths = {0, 1}
    MaxTip = 2
    MaxRefresh = 1
SYMMETRY Symmetric
CHECK_DEADLOCK FALSE
INVARIANTS
    LedgerOpenWhileUsed
    LoopIsOwned
