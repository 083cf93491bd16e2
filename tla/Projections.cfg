\* Updates that meet in batches, flushes that fail, and two caches.
SPECIFICATION MCSpec
CONSTANTS
    a1 = a1
    t1 = t1
    t2 = t2
    Accounts = {a1}
    Values = {1, 2}
    NoRow = 0
    Transactions = {t1, t2}
    AccountOf <- MCAccountOf
    Updates <- MCUpdates
    Readers = {r1}
    batch_size = 2
    batch_timeout = 1
    cache_ttl = 2
    flush_ttl = 1
    MaxChannel = 1
    MaxBatch = 2
    MaxFaults = 2
 
PROPERTIES
    
    PoisonedForever
    
    UpdatesAreTried
