\* RocksDB archive: pinned reads, two readers, a cache smaller than the key set
\* and a deleted account.
SPECIFICATION Spec
CONSTANTS
    g = g
    a1 = a1
    a2 = a2
    a3 = a3
    a4 = a4
    b3 = b3
    b4 = b4
    c2 = c2
    c3 = c3
    NoBlock = NoBlock
    Blocks <- Linear
    Genesis = g
    Parent <- MCParent
    Number <- MCNumber
    Anc <- MCAnc
    Keys <- MCKeys
    Writes <- MCWrites
    Clears <- SomeClears
    Readers = {r1, r2}
    DepthLimit = 1
    Capacity = 1
    CacheEnabled = TRUE
    PinnedReads = TRUE
    ClearsStorage = TRUE
INVARIANTS
    TagIsLowerBound
