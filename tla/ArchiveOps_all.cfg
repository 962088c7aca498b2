\* The parts of an archive beside its reads and commits.
SPECIFICATION OpsSpec
CONSTANTS
    g = g
    a1 = a1
    a2 = a2
    a3 = a3
    b1 = b1
    b2 = b2
    NoBlock = NoBlock
    Blocks <- MCBlocks
    Genesis = g
    Parent <- MCParent
    Number <- MCNumber
    Anc <- MCAnc
    Keys = {}
    Writes <- NoWrites
    Clears <- NoWrites
    Lookups = {t1}
    Prefix <- MCPrefix
    Code <- MCCode
    Shard <- MCShard
    MergeAt = 2
    StartTips = {a2}
    MaxOpens = 4
    EndBlock = 5
    Interval = 2
    MaxTasks = 2
    WorkerCount = 1
    MaxStarts = 2
    Handles = {h1, h2}
    Timeout = 1
    Slots = {s1}
    Values = {1}
    Codes = {c1, c2}
    Nonces = {1, 2}
    LastBlock = 3
    Before = 3
    NoVersion = NoVersion
    NoAccount = NoAccount
CHECK_DEADLOCK FALSE
INVARIANTS
    
    BlocksFound
    LoadSound
    HandlesSafe
    
PROPERTIES
    RightReadsStayRight
    
    IteratorsFreed
