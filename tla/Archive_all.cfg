\* Commits, cached reads, crashes and rewinds, on the three schemas.
SPECIFICATION ArchiveSpec
CONSTANTS
    g = g
    a1 = a1
    a2 = a2
    a3 = a3
    b2 = b2
    NoBlock = NoBlock
    Blocks <- MCBlocks
    Genesis = g
    Parent <- MCParent
    Number <- MCNumber
    Anc <- MCAnc
    Keys = {"slot"}
    Accounts = {}
    Writes <- MCWrites
    Clears <- MCClears
    Readers = {r1, r2}
    MaxSpans = 2
    VolatileSpan = 2
SYMMETRY Interchangeable
CHECK_DEADLOCK FALSE
INVARIANTS
    SpansExact
    ReadsExact
    NewestIsReal
    ArchiveExact
    OffsetNotAhead
