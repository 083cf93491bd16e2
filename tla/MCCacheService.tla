--------------------------- MODULE MCCacheService ---------------------------
(***************************************************************************)
(* Small instances of CacheService: up to three accounts in one shard, of  *)
(* which the first two share a lock.                                       *)
(***************************************************************************)
EXTENDS CacheService

CONSTANTS t1, t2, a1, a2, a3

OneShard == [a \in Accounts |-> 1]
TwoLocks == [a \in Accounts |-> IF a = a3 THEN 2 ELSE 1]

Values == [default_ttl |-> 3, max_size |-> 2, warmup_batch_size |-> 1,
           updaters |-> {t2}, accounts |-> {a1}, redis_fails |-> TRUE,
           operations |-> {"get_account", "set_account", "delete_account",
                           "invalidate_account", "get_account_events",
                           "set_account_events", "delete_account_events"}]

FullShard == [default_ttl |-> 1, max_size |-> 1, warmup_batch_size |-> 1,
              updaters |-> {}, accounts |-> {a1, a2, a3}, redis_fails |-> FALSE,
              operations |-> {"set_account", "invalidate_account"}]

Locks == [default_ttl |-> 2, max_size |-> 2, warmup_batch_size |-> 1,
          updaters |-> {t2}, accounts |-> {a1, a3}, redis_fails |-> TRUE,
          operations |-> {"get_account", "set_account", "invalidate_account"}]

FailingWarmups ==
    [default_ttl |-> 1, max_size |-> 2, warmup_batch_size |-> 1,
     updaters |-> {}, accounts |-> {a1, a3}, redis_fails |-> TRUE,
     operations |-> {"set_account", "set_account_events", "warmup_cache", "initialize"}]

Warmups ==
    [default_ttl |-> 2, max_size |-> 2, warmup_batch_size |-> 2,
     updaters |-> {}, accounts |-> {a1, a3}, redis_fails |-> FALSE,
     operations |-> {"set_account", "set_account_events", "warmup_cache"}]

MCConfigs == {Values, FullShard, Locks, FailingWarmups, Warmups}
=============================================================================
