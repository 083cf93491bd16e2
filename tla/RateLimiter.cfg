SPECIFICATION LimiterFairSpec
CONSTANTS
    ClientIds = {"c1", "c2"}
    requests_per_minute = 3
    burst_size = 2
    window_size = 3

    
PROPERTY
    ServedAgain
