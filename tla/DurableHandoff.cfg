\* Three blocks, one of them with an unauthorised log, a channel and a working
\* set of one slot, so that sends wait and admission, rotation and eviction
\* all happen, with faults at any point.
CONSTANTS
    m1 = m1
    m2 = m2
    m3 = m3
    Messages = {m1, m2, m3}
    BlockOf <- MCBlockOf
    Authorized <- MCAuthorized
    MaxBlock = 3
    StartBlock = 1
    Lookback = 1
    ScanSpan = 2
    ChannelCap = 1
    CacheMax = 1
    MaxFaults = 2
SPECIFICATION FairSpec
INVARIANTS
    TypeOK
    NoLoss
    ScanJournaled
    WorkingSetBacked
PROPERTIES
    KeepsCustody
    EveryMessageFinishes
CHECK_DEADLOCK TRUE
