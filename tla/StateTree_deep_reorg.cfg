\* A reorganisation as deep as the limit.
SPECIFICATION Spec
CONSTANTS
    g = g
    a1 = a1
    a2 = a2
    a3 = a3
    a4 = a4
    b3 = b3
    b4 = b4
    c2 = c2
    c3 = c3
    NoBlock = NoBlock
    Blocks <- Forked
    Genesis = g
    Parent <- MCParent
    Number <- MCNumber
    Anc <- MCAnc
    Keys <- MCKeys
    Writes <- MCWrites
    Clears <- NoClears
    Readers = {r1}
    DepthLimit = 2
    Capacity = 2
    CacheEnabled = TRUE
    PinnedReads = FALSE
    ClearsStorage = FALSE
INVARIANTS
    ReorgWithinLimitNeverPanics
