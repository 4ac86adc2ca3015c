SPECIFICATION LocalSpec
CONSTANTS
    Starts = {"none", "old"}
    OldPeers = {p1, p2}
    MaxBlocks = 3
    MaxEnds = 3
    None = None
    Cancelled = Cancelled
    Exhausted = Exhausted
    FirstHeaders <- MCFirstHeaders
    StartHeight = 0
    MedianBlocks = 3
    AdjustmentBlocks = 2
    FirstAdjustment = 5
    TargetSeconds = 2
    MaxFuture = 2
    MinimumDifficulty = 3
    MaximumDifficulty = 5
    InitialDifficulty = 4
    UpgradeHeight = 8
    AnchorHeight = 6
    AnchorTimestamp = 2
    AnchorDifficulty = 4
    HalfLife = 2
    Ticks = {1, 5}
    MaxHeight = 9
    MaxTime = 7
    Count = 3
    MaxNonce = 4
    CheckEvery = 2
    Addresses = {legacy, w1, w2}
    LegacyAddress = legacy
    MaxChanges = 1
    MaxCrashes = 1
    Merchants = {m1}
    Codes = {x1, x2}
    Requests = {r1, r2}
    Capacity = 1
    MaxLaunches = 2
    Handoffs = {a1, a2}
    Invoices = {i1, i2}
    Original = Original
    Dedicated = Dedicated
    MaxInterrupts = 1
    Sources <- MCSources
    Calls = {c1, c2}
    Size = 3
    MaxBytes = 4
    Pieces <- MCPieces
    Wrong = {"mirror"}
    Unreliable = {"mirror", "github"}
    Flaky = {"mirror", "github"}
    Helpers = {h1, h2}
    MaxStarts = 4
INVARIANTS
    LocalTypeOK
    NoCommitIsMissed
    HeadersAreAgreed
    FoundOrExhausted
    KeysAreSafe
    ConsentIsSpentOnce
    UpdatesAreWhole
CHECK_DEADLOCK FALSE
