\* A cache smaller than the key set: stale refills.
SPECIFICATION Spec
CONSTANTS
    g = g
    a1 = a1
    a2 = a2
    a3 = a3
    a4 = a4
    b3 = b3
    b4 = b4
    c2 = c2
    c3 = c3
    NoBlock = NoBlock
    Blocks <- Linear
    Genesis = g
    Parent <- MCParent
    Number <- MCNumber
    Anc <- MCAnc
    Keys <- MCKeys
    Writes <- MCWrites
    Clears <- NoClears
    Readers = {r1}
    DepthLimit = 1
    Capacity = 1
    CacheEnabled = TRUE
    PinnedReads = FALSE
    ClearsStorage = FALSE
INVARIANTS
    CacheCoherent
