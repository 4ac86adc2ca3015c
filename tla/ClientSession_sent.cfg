CHECK_DEADLOCK FALSE
SPECIFICATION Spec
CONSTANTS
    Launches = {s1}
    Threads = {w1, w2}
    Keys = {k1, k2}
    MaxRows = 2
    MaxPrepared = 2
    MaxCrashes = 2
SYMMETRY Symmetry
INVARIANTS
    SaysPaymentWasSent
