SPECIFICATION FairSpec
CONSTANTS
    Callers = {c1}
    Loops = {l1}
    Tasks = {t1}
    Services = {sync}
    Closers = {x1}
    Depths = {0, 1}
    MaxTip = 1
    MaxRefresh = 1
CHECK_DEADLOCK FALSE
PROPERTIES
    StaleWorkEnds
    MiningStops
    CloseEnds
