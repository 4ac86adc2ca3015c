SPECIFICATION Spec
CONSTANTS
    Invoices = {i1}
    Transactions = {t1}
    i1 = i1
    t1 = t1
    Pays <- MCPays
    Requests = {c1, c2}
    Required = 2
    Lifetime = 1
    Timeout = 1
    Grace = 1
    RetryAfter = 1
    MaxAttempts = 3
    MaxFaults <- MCOneFault
INVARIANTS
    StaleJobsRecover
