\* A notification of two blocks.
SPECIFICATION KafkaSpec
CONSTANTS
    g = g
    a1 = a1
    a2 = a2
    a3 = a3
    a4 = a4
    a5 = a5
    b3 = b3
    b4 = b4
    b5 = b5
    c4 = c4
    c5 = c5
    NoBlock = NoBlock
    Blocks <- MCBlocks
    Genesis = g
    Parent <- MCParent
    Number <- MCNumber
    Anc <- MCAnc
    Keys = {}
    Writes <- NoWrites
    Clears <- NoWrites
    Readers = {}
    DepthLimit = 2
    Capacity = 0
    CacheEnabled = FALSE
    PinnedReads = FALSE
    ClearsStorage = FALSE
    Topic <- ReorgTopic
    SafeDepth = 1
    MaxReorg = 1
    BundleModes = {FALSE}
    BundledTo = 0
    MaxExpired = 0
    MaxCrashes = 1
    Faults = {}
CHECK_DEADLOCK FALSE
INVARIANTS
    NothingSkipped
