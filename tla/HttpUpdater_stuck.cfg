\* A reorganisation that replaces as many blocks as the depth limit.
SPECIFICATION HttpSpec
CONSTANTS
    g = g
    a1 = a1
    a2 = a2
    a3 = a3
    a4 = a4
    a5 = a5
    b3 = b3
    b4 = b4
    b5 = b5
    b6 = b6
    NoBlock = NoBlock
    Blocks <- LimitFork
    Genesis = g
    Parent <- MCParent
    Number <- MCNumber
    Anc <- MCAnc
    Keys = {}
    Writes <- NoWrites
    Clears <- NoWrites
    Readers = {}
    DepthLimit = 2
    Capacity = 0
    CacheEnabled = FALSE
    PinnedReads = FALSE
    ClearsStorage = FALSE
    HistoricalReads = TRUE
    RpcMayFail = FALSE
    DbMayFail = FALSE
    MaxHttpCrashes = 0
CHECK_DEADLOCK FALSE
PROPERTIES
    HttpCatchesUp
