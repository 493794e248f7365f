\* No journal: a message that finds the one slot taken is set aside.
\* Nobody signs m2: it was executed elsewhere.
CONSTANTS
    m1 = m1
    m2 = m2
    s1 = s1
    s2 = s2
    Messages = {m1, m2}
    Signers = {s1, s2}
    NoSigner = NoSigner
    Signed <- MCSignedOne
    FirstSet <- MCPairSet
    Reloads <- MCOneReload
    MaxReloads = 1
    CacheSizes = {1}
    DeliveryCap = 1
    Persistent = FALSE
SPECIFICATION FairSpec
PROPERTIES
    BundleIsQuorum
    EventuallyResolved
CHECK_DEADLOCK TRUE
