SPECIFICATION LedgerSpec
CONSTANTS
    MaxSupply = 9
    EmissionBlocks = 2
    Regular <- MCRegular
    Coinbases <- MCCoinbases
    InputsOf <- MCInputsOf
    OutputsOf <- MCOutputsOf
    SizeOf <- MCSizeOf
    Authentic <- MCRegular
    CoinbaseMaturity = 2
    CoinbaseMaturityActivationHeight = 3
    MaxPendingTransactions = 3
    MaxMempoolBytes = 10
    MaxMempoolInputs = 10
    RelayFeeUnit = 2
    RelayFeePerUnit = 1
    MaxOrphanedBytes = 10
    MaxBlockTransactions = 3
    MaxBlockBytes = 10
    BlockOverhead = 1
    CoinbaseReserve = 1
    OfferedBlocks <- MCReorgBlocks
    Works = {1, 2}
    MinedWorks = {}
    ImportedPending = {}
    PruneRetentions = {1}
    MaxHeight = 4
    MaxBranch = 3
INVARIANTS
    TypeOK
    UtxoIsUnspent
    UndoCoversWindow
    SupplyMatchesIssuance
    MempoolMineable
    SpendableIsAdmissible
    MinedBlockConnects
    MinerTakesWholePool
    PoolStaysWithinBudget
PROPERTIES
    ImplementsChainStore
    NothingIsLost
