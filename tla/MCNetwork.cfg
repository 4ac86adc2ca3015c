SPECIFICATION MCSpec
CONSTANTS
    Peers = {p1, p2}
    Weight <- MCWeight
    PeerChains <- MCPeerChains
    LocalChains <- MCLocalChains
    Page = 2
    MaxChunks = 2
    Depth = 1
    MaxHeight = 2
    MaxChanges = 1
    QueueCap = 3
    Batch = 2
    BlockScore = 1
    ScoreLimit = 2
    MaxFaults = 2
    Senders = {s1, s2}
    Closers = {c1, c2}
    Sizes = {1, 2}
    MaxBytes = 5
    Capacity = 3
    MaxSends = 3
    Names = {n1, n2, n3}
    PublicNames = {n1, n2}
    Seeds = {n1}
    Dials = {d1, d2}
    MaxPeers = 2
    MaxDiscovered = 1
    MaxPublic = 1
    MaxOutbound = 1
    StaleFailures = 1
    MaxEvents = 1
    MaxRestarts = 1
    Hosts = {h1, h2}
    Requests = {r1, r2}
    Burst = 2
    TableSize = 1
    Retention = 2
    PerIP = 1
    Slots = 1
    HeavySlots = 1
    n1 = n1
    n2 = n2
    n3 = n3
    d1 = d1
    d2 = d2
SYMMETRY DialSymmetry
INVARIANTS
    NetworkTypeOK
    
    NothingLeaks
    PeersAreCounted
PROPERTIES
    ReplacementsAreSound
CHECK_DEADLOCK FALSE
