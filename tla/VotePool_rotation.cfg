\* Two messages compete for one slot, or have one each and compete for one
\* place in the delivery channel, while the attestor set changes.
CONSTANTS
    m1 = m1
    m2 = m2
    s1 = s1
    s2 = s2
    Messages = {m1, m2}
    Signers = {s1, s2}
    NoSigner = NoSigner
    Signed <- MCSigned
    FirstSet <- MCFullSet
    Reloads <- MCReloads
    MaxReloads = 1
    CacheSizes = {1, 2}
    DeliveryCap = 1
    Persistent = TRUE
SPECIFICATION Spec
SYMMETRY MCSymmetry
INVARIANTS
    TypeOK
    OneJobPerMessage
    VotesAreCurrent
PROPERTIES
    BundleIsQuorum
    NothingDropped
CHECK_DEADLOCK TRUE
