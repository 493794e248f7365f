\* Two confirmations, processes with a limit of 1 or 3, faults of every kind.
SPECIFICATION Spec

CONSTANTS
    Depth = 2
    Simulate = TRUE
    MaxRetries = 1
    AutoTopUp = FALSE
    MaxTopUpAttempts = 2
    OverCap = {FALSE}
    Fundings = {"none"}
    Limits = {1, 3}
    InitialBackoff = 1
    MaxBackoff = 2
    NoEntry = NoEntry
    Faults = {"rpc", "reorg", "crash", "read", "write", "queue", "stall", "lost", "race"}
    MaxFaults = 3

INVARIANT TypeOK
INVARIANT DeliveredIsFinal
INVARIANT RetryBudget
INVARIANT NoOvercharge
PROPERTY AbandonedStays
