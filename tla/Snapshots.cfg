SPECIFICATION SnapshotsFairSpec
CONSTANTS
    Workers = {"w1", "w2"}
    Aggregates = {"a1", "a2"}
    snapshot_threshold = 1
    max_snapshots_per_run = 1
    MaxEvents = 5
INVARIANTS
    CacheNotAhead
PROPERTIES
    SnapshotsAdvance
    
CHECK_DEADLOCK FALSE
