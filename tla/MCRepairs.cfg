SPECIFICATION FairSpec
CONSTANTS
    p1 = p1
    p2 = p2
    t1 = t1
    t2 = t2
    t3 = t3
    t4 = t4
    i1 = i1
    x1 = x1
    c1 = c1
    c2 = c2
PROPERTIES
    
    PoolsConverge
    PaymentsSettle
CHECK_DEADLOCK FALSE
