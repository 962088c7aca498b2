\* An archive; reorganisations of every depth, past the committed block too.
SPECIFICATION HttpSpec
CONSTANTS
    g = g
    a1 = a1
    a2 = a2
    a3 = a3
    a4 = a4
    a5 = a5
    b3 = b3
    b4 = b4
    b5 = b5
    b6 = b6
    NoBlock = NoBlock
    Blocks <- DeepFork
    Genesis = g
    Parent <- MCParent
    Number <- MCNumber
    Anc <- MCAnc
    Keys = {}
    Writes <- NoWrites
    Clears <- NoWrites
    Readers = {}
    DepthLimit = 2
    Capacity = 0
    CacheEnabled = FALSE
    PinnedReads = FALSE
    ClearsStorage = FALSE
    HistoricalReads = TRUE
    RpcMayFail = TRUE
    DbMayFail = TRUE
    MaxHttpCrashes = 2
CHECK_DEADLOCK FALSE
INVARIANTS
    ImportsAttach
    QueueLinked
PROPERTIES
    HttpFollows
