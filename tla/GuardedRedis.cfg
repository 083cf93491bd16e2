CONSTANTS
    Clients = {"c1", "c2", "c3"}
    max_concurrent_requests = 2
    failure_threshold = 2
    reset_timeout = 2
    MaxFailures = 4
SPECIFICATION FairSpec
INVARIANTS
    PermitAccounting
    
PROPERTIES
    BreakerCloses
