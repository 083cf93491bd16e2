SPECIFICATION FairSpec
CONSTANTS
    Accounts = {"a1"}
    InitialEvents <- ThreeEvents
    Recoverers = {"r1"}
    Strategists = {"s1", "s2"}
    Loop = "loop"
    Strategies = {"FullReplay", "SelectiveReplay", "IncrementalReplay", "DLQOnly"}
    Faults = TRUE
    MaxStarts = 2
INVARIANTS
    
    OneRecovery
    GrowthBound

    
CHECK_DEADLOCK FALSE
