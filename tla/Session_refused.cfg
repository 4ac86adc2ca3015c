SPECIFICATION Spec
CONSTANTS
    Starts = {"none"}
    OldPeers = {p1, p2}
    MaxBlocks = 1
    MaxEnds = 1
CHECK_DEADLOCK FALSE
INVARIANTS
    DirtyLedgerIsAccepted
