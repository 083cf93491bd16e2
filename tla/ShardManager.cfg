SPECIFICATION MCSpec
CONSTANTS
    MaxHash = 10
    shard_count = 3
    Threshold = 20
    Instances = {"i1", "i2"}
    Missing = "missing"
    Unassigned = "unassigned"
    Starts <- MCStarts
    Assignments <- ThereAndBack
    Tasks = {"t1", "t2"}
    None = "none"
    Lookups = {"l1", "l2"}
    MaxFaults = 1
INVARIANTS
    LookupsAreExact
    UnexpiredIsOwned
    MovesUnderLock
PROPERTY
    EveryCallReturns
