SPECIFICATION MerchantSpec
CONSTANTS
    Invoices = {i1, i2}
    Transactions = {t1, t2}
    i1 = i1
    i2 = i2
    t1 = t1
    t2 = t2
    Pays <- MCPays
    Requests = {c1, c2}
    Required = 2
    Lifetime = 1
    Timeout = 1
    Grace = 1
    RetryAfter = 1
    MaxAttempts = 3
    MaxFaults <- MCFaults
INVARIANTS
    CallsAreJustified
    ArtifactMatchesReceipt
    PaysOneInvoice
PROPERTIES
    StagedIsNotPaidAgain
    PaymentsAreFinal
