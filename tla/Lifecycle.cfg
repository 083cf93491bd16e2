SPECIFICATION ProcessFairSpec
CONSTANTS
    KafkaEnabled = TRUE
    Faults = TRUE
    MaxRequests = 3
INVARIANTS
    UnwrapsSucceed
    
PROPERTIES
    StartsServing
    
CHECK_DEADLOCK FALSE
