SPECIFICATION Spec

CONSTANTS
    Depth = 0
    Simulate = TRUE
    MaxRetries = 1
    AutoTopUp = FALSE
    MaxTopUpAttempts = 2
    OverCap = {FALSE}
    Fundings = {"none"}
    Limits = {1}
    InitialBackoff = 1
    MaxBackoff = 2
    NoEntry = NoEntry
    Faults = {"crash"}
    MaxFaults = 1

INVARIANT CrashForgetsNothing
