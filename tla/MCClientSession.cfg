CHECK_DEADLOCK FALSE
SPECIFICATION Spec
CONSTANTS
    Launches = {s1}
    Threads = {w1, w2, w3}
    Keys = {k1, k2}
    MaxRows = 2
    MaxPrepared = 2
    MaxCrashes = 2
SYMMETRY Symmetry
INVARIANTS
    PaidOnce
    CommitsAreReviewed
    EndsTellTheTruth
PROPERTIES
    BroadcastIsRemembered
