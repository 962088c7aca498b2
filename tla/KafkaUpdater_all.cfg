\* Batches of two, a fork, crashes, retention, every fault, with and without
\* bundles.
SPECIFICATION KafkaSpec
CONSTANTS
    g = g
    a1 = a1
    a2 = a2
    a3 = a3
    a4 = a4
    a5 = a5
    b3 = b3
    b4 = b4
    b5 = b5
    c4 = c4
    c5 = c5
    NoBlock = NoBlock
    Blocks <- ForkBlocks
    Genesis = g
    Parent <- ForkParent
    Number <- ForkNumber
    Anc <- ForkAnc
    Keys = {}
    Writes <- NoForkWrites
    Clears <- NoForkWrites
    Readers = {}
    DepthLimit = 2
    Capacity = 0
    CacheEnabled = FALSE
    PinnedReads = FALSE
    ClearsStorage = FALSE
    Topic <- ForkTopic
    SafeDepth = 1
    MaxReorg = 1
    BundleModes = {TRUE, FALSE}
    BundledTo = 1
    MaxExpired = 2
    MaxCrashes = 2
    Faults = {"s3", "db", "offset", "watermark"}
CHECK_DEADLOCK FALSE
INVARIANTS
    ResumeSafe
PROPERTIES
    CaughtUpIsApplied
    HandOffAttaches
    FollowsOrReplays
