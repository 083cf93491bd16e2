CONSTANTS
    r1 = r1
    r2 = r2
    r3 = r3
    a1 = a1
    a2 = a2
    a3 = a3
    f1 = f1
    f2 = f2
    Requests = {r1}
    Aggregates = {a1, a2, a3}
    Flushes = {f1, f2}
    CallsOf <- MCCallsOf
    InitialRows <- MCRows
    BatchSize = 1
    MaxBatchQueueSize = 1
    MaxConnections = 1
    Disconnecting = {}
    Lookups = {}
SPECIFICATION MCSpec
INVARIANTS
    ConflictMeansStale
