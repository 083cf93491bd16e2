SPECIFICATION FairSpec
CONSTANTS
    t1 = t1
    t2 = t2
    a1 = a1
    a2 = a2
    a3 = a3
    Tasks = {t1, t2}
    Accounts = {a1, a2, a3}
    ShardOf <- OneShard
    LockOf <- TwoLocks
    NumLocks = 2
    Configs <- MCConfigs
INVARIANTS
    
    ShardBound
PROPERTIES
    WarmupsExclude
    OthersReturn
    WarmupEnds
