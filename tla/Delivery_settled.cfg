\* Every funding, top-ups on; the estimate finds what is under-funded.
SPECIFICATION FairSpec

CONSTANTS
    Depth = 1
    Simulate = FALSE
    MaxRetries = 1
    AutoTopUp = TRUE
    MaxTopUpAttempts = 2
    OverCap = {TRUE, FALSE}
    Fundings = {"none", "short", "enough"}
    Limits = {0, 1}
    InitialBackoff = 1
    MaxBackoff = 2
    NoEntry = NoEntry
    Faults = {"rpc", "reorg", "crash", "read", "queue"}
    MaxFaults = 2

INVARIANT RefusalIsRight
PROPERTY EventuallySettled
