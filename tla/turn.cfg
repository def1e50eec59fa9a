SPECIFICATION MCSpec
CONSTANTS
    p1 = p1
    p2 = p2
    Runs = {p1, p2}
    Keys <- CallKeys
    Monthly = 3
    MaxRequest = 2
    Amounts = {1, 2}
    Costs = {0, 2}
    Months = 1
    Order <- TwoFree
    Paid = {"c"}
    Fit = {"a","c"}
    RelaxedFit = {"a","b","c"}
    PoolOf <- Pools
    Shared = {"key"}
    SecretOf <- Secrets
    PaidAllowed = {p1, p2}
    Legacy = {p2}
    Tolerant = {}
    Estimate = 2
    Kinds = {"transient","billed","account"}
    MaxTurns = 2
    MaxEscalations = 1
    Attempts = 2
    MaxFaults = 1
    Endless = FALSE
    Mistakes = TRUE
    Calls <- Requests
    AllowedProviders <- Backed
    PerProvider = 2
    FailureThreshold = 2
    CallCosts = {0, 1, 3}
    CacheSize = 1
    MaxTroubles = 2
INVARIANTS BudgetHolds HoldsAreOwned TakesOverFromCheckpoint PaysOnce
CHECK_DEADLOCK FALSE
