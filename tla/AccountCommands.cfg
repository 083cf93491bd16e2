SPECIFICATION Spec
CONSTANTS
    h1 = h1
    h2 = h2
    s1 = s1
    s2 = s2
    i1 = i1
    i2 = i2
    i3 = i3
    Handlers = {h1, h2}
    Services = {s1, s2}
    Deployments <- MCDeployments
    Ids = {i1, i2, i3}
    Amounts <- SmallAmounts
    InitialEvents <- OneAccount
    MaxEvents = 4
SYMMETRY Symmetry
CHECK_DEADLOCK FALSE
INVARIANTS
    HistoriesAreSerial
    OneCommandPerAccount
    
