\* The gate, the budgets, the reaper, the counters, the purge, quotes, refunds.
SPECIFICATION MCSpec
CONSTANTS
    Parts = {"gate", "reaper", "usage", "purge", "quotes", "refunds"}
    v1 = v1
    v2 = v2
    v3 = v3
    k1 = k1
    k2 = k2
    sand = sand
    std = std
    Calls = {v1, v2, v3, k1, k2}
    Pool <- Kind
    Limit <- Slots
    MaxRetry <- Retries
    Tenants = {sand, std}
    Sandboxes = {sand}
    Of <- Owner
    Est <- Price
    PoolCap = 2
    TenantCap = 3
    DayCap = 2
    MaxDays = 1
    MaxWork = 2
    MaxMishaps = 4
    Months = 2
    MaxReplies = 3
    MaxMisses = 2
    MaxSays = 4
    MaxSlips = 2
    NQuotes = 2
    MaxWaits = 2
    MaxFaults = 2
    MaxClicks = 3
    MaxTroubles = 2
INVARIANTS GateAddsUp UsedIsExact RefundToldOnce
PROPERTIES IsTurnstile EveryCallEnds SandboxIsSafe EverySandboxGoes PurgeIsSafe QuotesAreSafe
CHECK_DEADLOCK FALSE
