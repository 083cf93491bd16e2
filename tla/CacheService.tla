---------------------------- MODULE CacheService ----------------------------
(***************************************************************************)
(* The two-level cache of src/src/infrastructure/cache_service.rs: sharded *)
(* in-memory maps (L1) in front of Redis, with the L1CacheUpdater of       *)
(* l1_cache_updater.rs as one of its users.                                *)
(*                                                                         *)
(* What a cached account says does not matter here, only how old it is:    *)
(* an entry is the time since its value was handed to set_account and, in  *)
(* L1, the time since it was entered there.                                *)
(*                                                                         *)
(* A shard is a DashMap, which has a lock of its own for each part of its  *)
(* keys.  get_account removes an expired entry, and evict_entries the      *)
(* entry it picked, while the reference they found it with still holds     *)
(* that lock for reading; the removal then waits for its own task.  Such a *)
(* task is "blocked", and has no further step.  Readers share the lock,    *)
(* writers wait for it.                                                    *)
(***************************************************************************)
EXTENDS Integers, FiniteSets

CONSTANTS
    Tasks,          \* worker threads that run the cache's users
    Accounts,
    ShardOf,        \* get_shard_index
    LockOf,         \* the lock of a DashMap that guards an account's entry
    NumLocks,
    Configs         \* the ways the cache is set up and used

(* The CacheConfig (the ttl in ticks, for L1 and for Redis), the tasks     *)
(* that run L1CacheUpdater::start, the operations the others call and for  *)
(* which accounts, and whether commands to Redis may fail.                 *)
ConfigsAssumption ==
    \A c \in Configs :
        /\ c.default_ttl \in Nat \ {0}
        /\ c.max_size \in Nat \ {0}
        /\ c.warmup_batch_size \in Nat \ {0}
        /\ c.updaters \subseteq Tasks
        /\ c.accounts \subseteq Accounts
        /\ c.redis_fails \in BOOLEAN

ASSUME CacheServiceAssumption ==
    /\ IsFiniteSet(Tasks) /\ Tasks # {}
    /\ IsFiniteSet(Accounts) /\ Accounts # {}
    /\ NumLocks \in Nat \ {0} /\ LockOf \in [Accounts -> 1 .. NumLocks]
    /\ ConfigsAssumption

VARIABLES
    config,         \* which of Configs this is; it never changes
    pc, account,    \* where each task stands, and for which account
    age,            \* the age of the value a task is about to enter in L1
    guard,          \* the lock a blocked task keeps
    shards,         \* L1: the entry of each account, or Missing
    redis,          \* Redis: the age of "account:{id}", or Missing
    event_cache,    \* accounts with an entry in the L1 event cache
    redis_events,   \* accounts with a key "events:{id}" in Redis
    sweep,          \* the lock the cleanup task waits for next
    is_warming,     \* WarmingState.is_warming
    warmers,        \* tasks in warmup_cache, past its first test
    todo,           \* the accounts a task has yet to warm
    loaded          \* the ages a warming task read with its last pipeline

warmVars == <<is_warming, warmers, todo, loaded>>
taskVars == <<pc, account, age, guard>>
vars == <<config, taskVars, warmVars, shards, redis, event_cache, redis_events, sweep>>

default_ttl == config.default_ttl
max_size == config.max_size
warmup_batch_size == config.warmup_batch_size
Updaters == config.updaters
RedisFails == config.redis_fails

Missing == [age |-> -1, here |-> -1]
Absent == -1

(* No value that is served is that old: it has left Redis, and then L1.    *)
MaxAge == 2 * default_ttl - 1

Cached(shard) == {a \in Accounts : ShardOf[a] = shard /\ shards[a] # Missing}

Held(lock) == \E t \in Tasks : pc[t] = "blocked" /\ guard[t] = lock

IsExpired(a) == shards[a].here >= default_ttl

Goto(t, stage) == pc' = [pc EXCEPT ![t] = stage]

AnyAccount == CHOOSE a \in Accounts : TRUE

MayCall(t, operation) ==
    /\ pc[t] = "idle"
    /\ operation \in config.operations
    /\ (t \in Updaters) => operation = "set_account"

Enter(t, a, stage) ==
    /\ Goto(t, stage)
    /\ account' = [account EXCEPT ![t] = a]

(* The call is over; an updater goes on with delete_account_events, a      *)
(* warmup with the events of the account and then with the next account.   *)
Return(t) ==
    /\ age' = [age EXCEPT ![t] = 0]
    /\ CASE t \in Updaters /\ pc[t] # "dropping_events" ->
               Goto(t, "dropping_events") /\ UNCHANGED account
         [] t \in warmers /\ pc[t] = "inserting" ->
               Goto(t, "filling_events") /\ UNCHANGED account
         [] t \in warmers /\ pc[t] = "filling_events" ->
               Enter(t, AnyAccount, "warming_chunk")
         [] OTHER -> Enter(t, AnyAccount, "idle")

Nothing == [a \in Accounts |-> Absent]

Init ==
    /\ config \in Configs
    /\ pc = [t \in Tasks |-> "idle"]
    /\ account = [t \in Tasks |-> AnyAccount]
    /\ age = [t \in Tasks |-> 0]
    /\ guard = [t \in Tasks |-> 1]
    /\ shards = [a \in Accounts |-> Missing]
    /\ redis = [a \in Accounts |-> Absent]
    /\ event_cache = {}
    /\ redis_events = {}
    /\ sweep = 1
    /\ is_warming = FALSE
    /\ warmers = {}
    /\ todo = [t \in Tasks |-> {}]
    /\ loaded = [t \in Tasks |-> Nothing]

(* Mutant: a hit renews the entry, as for an LRU policy.                   *)
GetAccountTouches(t, a) ==
    /\ MayCall(t, "get_account")
    /\ \/ shards[a] = Missing /\ Enter(t, a, "fetching") /\ UNCHANGED shards
       \/ /\ shards[a] # Missing /\ ~IsExpired(a)
          /\ shards' = [shards EXCEPT ![a].here = 0]
          /\ UNCHANGED <<pc, account>>
    /\ UNCHANGED <<age, guard, redis, event_cache, redis_events, sweep>>

(* get_account: an L1 hit returns at once, an expired entry blocks.        *)
GetAccount(t, a) ==
    /\ MayCall(t, "get_account")
    /\ \/ shards[a] = Missing /\ Enter(t, a, "fetching") /\ UNCHANGED guard
       \/ shards[a] # Missing /\ ~IsExpired(a) /\ UNCHANGED <<pc, account, guard>>
       \/ /\ shards[a] # Missing /\ IsExpired(a)
          /\ Enter(t, a, "blocked")
          /\ guard' = [guard EXCEPT ![t] = LockOf[a]]
    /\ UNCHANGED <<age, shards, redis, event_cache, redis_events, sweep>>

(* Mutant: a get that waits until somebody sets the account.               *)
FetchAccountWaits(t) ==
    /\ pc[t] = "fetching"
    /\ redis[account[t]] # Absent
    /\ Goto(t, "filling")
    /\ age' = [age EXCEPT ![t] = redis[account[t]]]
    /\ UNCHANGED <<account, guard, shards, redis, event_cache,
                   redis_events, sweep>>

FetchAccount(t) ==
    LET a == account[t] IN
    /\ pc[t] = "fetching"
    /\ \/ /\ redis[a] # Absent
          /\ Goto(t, "filling")
          /\ age' = [age EXCEPT ![t] = redis[a]]
          /\ UNCHANGED account
       \/ (redis[a] = Absent \/ RedisFails) /\ Return(t)
    /\ UNCHANGED <<guard, shards, redis, event_cache, redis_events, sweep>>

(* set_account: SET EX, then the L1 insert.                                *)
SetAccount(t, a) ==
    /\ MayCall(t, "set_account")
    /\ \/ /\ redis' = [redis EXCEPT ![a] = 0]
          /\ Enter(t, a, "filling")
       \/ /\ RedisFails
          /\ IF t \in Updaters THEN Enter(t, a, "dropping_events")
                               ELSE UNCHANGED <<pc, account>>
          /\ UNCHANGED redis
    /\ UNCHANGED <<age, guard, shards, event_cache, redis_events, sweep>>

(* Mutant: a shard may grow past max_size.                                 *)
CheckSizeAfter(t) ==
    /\ pc[t] = "filling"
    /\ Goto(t, IF Cardinality(Cached(ShardOf[account[t]])) > max_size
                 THEN "evicting" ELSE "inserting")
    /\ UNCHANGED <<account, age, guard, shards, redis, event_cache,
                   redis_events, sweep>>

(* update_in_memory_cache: the size is read, an entry evicted if it is     *)
(* reached, and the new entry inserted; other threads run in between.      *)
CheckSize(t) ==
    /\ pc[t] = "filling"
    /\ Goto(t, IF Cardinality(Cached(ShardOf[account[t]])) >= max_size
                 THEN "evicting" ELSE "inserting")
    /\ UNCHANGED <<account, age, guard, shards, redis, event_cache,
                   redis_events, sweep>>

EvictEntries(t) ==
    LET here == Cached(ShardOf[account[t]])
        oldest == {a \in here : \A b \in here : shards[a].here >= shards[b].here}
    IN  /\ pc[t] = "evicting"
        /\ \/ here = {} /\ Goto(t, "inserting") /\ UNCHANGED guard
           \/ \E victim \in oldest :
                 /\ Goto(t, "blocked")
                 /\ guard' = [guard EXCEPT ![t] = LockOf[victim]]
        /\ UNCHANGED <<account, age, shards, redis, event_cache,
                       redis_events, sweep>>

Insert(t) ==
    LET a == account[t] IN
    /\ pc[t] = "inserting"
    /\ ~Held(LockOf[a])
    /\ shards' = [shards EXCEPT ![a] = [age |-> age[t], here |-> 0]]
    /\ Return(t)
    /\ UNCHANGED <<guard, redis, event_cache, redis_events, sweep>>

(* delete_account: Redis only.                                             *)
DeleteAccount(t, a) ==
    /\ MayCall(t, "delete_account")
    /\ redis' = [redis EXCEPT ![a] = Absent]
    /\ UNCHANGED <<pc, account, age, guard, shards, event_cache, redis_events,
                   sweep>>

(* invalidate_account: L1, then the two keys in Redis one after the other. *)
InvalidateAccount(t, a) ==
    /\ MayCall(t, "invalidate_account")
    /\ Enter(t, a, "invalidating")
    /\ UNCHANGED <<age, guard, shards, redis, event_cache, redis_events,
                   sweep>>

InvalidateShard(t) ==
    LET a == account[t] IN
    /\ pc[t] = "invalidating"
    /\ ~Held(LockOf[a])
    /\ shards' = [shards EXCEPT ![a] = Missing]
    /\ event_cache' = event_cache \ {a}
    /\ Goto(t, "deleting")
    /\ UNCHANGED <<account, age, guard, redis, redis_events, sweep>>

InvalidateRedis(t) ==
    /\ pc[t] = "deleting"
    /\ \/ /\ redis' = [redis EXCEPT ![account[t]] = Absent]
          /\ Goto(t, "deleting_events")
          /\ UNCHANGED <<account, age>>
       \/ RedisFails /\ Return(t) /\ UNCHANGED redis
    /\ UNCHANGED <<guard, shards, event_cache, redis_events,
                   sweep>>

InvalidateEvents(t) ==
    /\ pc[t] = "deleting_events"
    /\ \/ redis_events' = redis_events \ {account[t]}
       \/ RedisFails /\ UNCHANGED redis_events
    /\ Return(t)
    /\ UNCHANGED <<guard, shards, redis, event_cache, sweep>>

(* The event lists: get_account_events, set_account_events and             *)
(* delete_account_events.  No L1 entry of these expires.                   *)
GetAccountEvents(t, a) ==
    /\ MayCall(t, "get_account_events")
    /\ IF a \in event_cache THEN UNCHANGED <<pc, account>>
                           ELSE Enter(t, a, "fetching_events")
    /\ UNCHANGED <<age, guard, shards, redis, event_cache, redis_events,
                   sweep>>

FetchEvents(t) ==
    LET found == account[t] \in redis_events IN
    /\ pc[t] = "fetching_events"
    /\ \/ found /\ Goto(t, "filling_events") /\ UNCHANGED <<account, age>>
       \/ (~found \/ RedisFails) /\ Return(t)
    /\ UNCHANGED <<guard, shards, redis, event_cache,
                   redis_events, sweep>>

SetAccountEvents(t, a) ==
    /\ MayCall(t, "set_account_events")
    /\ \/ redis_events' = redis_events \cup {a} /\ Enter(t, a, "filling_events")
       \/ RedisFails /\ UNCHANGED <<pc, account, redis_events>>
    /\ UNCHANGED <<age, guard, shards, redis, event_cache, sweep>>

InsertEvents(t) ==
    /\ pc[t] = "filling_events"
    /\ event_cache' = event_cache \cup {account[t]}
    /\ Return(t)
    /\ UNCHANGED <<guard, shards, redis, redis_events,
                   sweep>>

(* delete_account_events, called directly or by the updater.               *)
DeleteEvents(a) ==
    /\ \/ redis_events' = redis_events \ {a}
       \/ RedisFails /\ UNCHANGED redis_events
    /\ UNCHANGED <<guard, shards, redis, event_cache, sweep>>

DeleteAccountEvents(t, a) ==
    /\ MayCall(t, "delete_account_events")
    /\ DeleteEvents(a)
    /\ UNCHANGED <<pc, account, age>>

DropEvents(t) ==
    /\ pc[t] = "dropping_events"
    /\ DeleteEvents(account[t])
    /\ Return(t)

(* initialize marks the cache as warming; only the end of a warmup unmarks *)
(* it.                                                                     *)
Initialize(t) ==
    /\ MayCall(t, "initialize")
    /\ \/ is_warming' = TRUE
       \/ RedisFails /\ UNCHANGED is_warming
    /\ UNCHANGED <<taskVars, warmers, todo, loaded, shards, redis, event_cache,
                   redis_events, sweep>>

(* Mutant: two warmups may run side by side.                               *)
WarmupCacheAlways(t, account_ids) ==
    /\ MayCall(t, "warmup_cache")
    /\ is_warming' = TRUE
    /\ Goto(t, "warming")
    /\ warmers' = warmers \cup {t}
    /\ todo' = [todo EXCEPT ![t] = account_ids]
    /\ UNCHANGED <<account, age, guard, loaded, shards, redis, event_cache,
                   redis_events, sweep>>

(* warmup_cache: without a connection it returns, and leaves the mark.     *)
WarmupCache(t, account_ids) ==
    /\ MayCall(t, "warmup_cache")
    /\ is_warming' = TRUE
    /\ \/ (is_warming \/ RedisFails) /\ UNCHANGED <<pc, warmers, todo>>
       \/ /\ ~is_warming
          /\ Goto(t, "warming")
          /\ warmers' = warmers \cup {t}
          /\ todo' = [todo EXCEPT ![t] = account_ids]
    /\ UNCHANGED <<account, age, guard, loaded, shards, redis, event_cache,
                   redis_events, sweep>>

(* One pipeline reads the accounts and the event lists of a chunk; only    *)
(* accounts with both are entered.  An error ends the call.                *)
WarmupFetch(t) ==
    /\ pc[t] = "warming" /\ todo[t] # {}
    /\ \/ \E chunk \in SUBSET todo[t] :
             /\ \/ Cardinality(chunk) = warmup_batch_size
                \/ chunk = todo[t] /\ Cardinality(chunk) < warmup_batch_size
             /\ loaded' = [loaded EXCEPT ![t] = [a \in Accounts |->
                             IF a \in chunk \cap redis_events THEN redis[a] ELSE Absent]]
             /\ todo' = [todo EXCEPT ![t] = @ \ chunk]
             /\ Goto(t, "warming_chunk")
             /\ UNCHANGED warmers
       \/ /\ RedisFails
          /\ todo' = [todo EXCEPT ![t] = {}]
          /\ warmers' = warmers \ {t}
          /\ Goto(t, "idle")
          /\ UNCHANGED loaded
    /\ UNCHANGED <<account, age, guard, is_warming, shards, redis,
                   event_cache, redis_events, sweep>>

(* The accounts of a chunk go through update_in_memory_cache one by one.   *)
WarmupNext(t) ==
    LET found == {a \in Accounts : loaded[t][a] # Absent} IN
    /\ pc[t] = "warming_chunk"
    /\ \/ \E a \in found :
             /\ Enter(t, a, "filling")
             /\ age' = [age EXCEPT ![t] = loaded[t][a]]
             /\ loaded' = [loaded EXCEPT ![t][a] = Absent]
       \/ found = {} /\ Goto(t, "warming") /\ UNCHANGED <<account, age, loaded>>
    /\ UNCHANGED <<guard, is_warming, warmers, todo, shards, redis,
                   event_cache, redis_events, sweep>>

(* Mutant: a warmup that leaves the mark set.                              *)
WarmupEndMarked(t) ==
    /\ pc[t] = "warming" /\ todo[t] = {}
    /\ warmers' = warmers \ {t}
    /\ Goto(t, "idle")
    /\ UNCHANGED <<account, age, guard, is_warming, todo, loaded, shards,
                   redis, event_cache, redis_events, sweep>>

WarmupEnd(t) ==
    /\ pc[t] = "warming" /\ todo[t] = {}
    /\ is_warming' = FALSE
    /\ warmers' = warmers \ {t}
    /\ Goto(t, "idle")
    /\ UNCHANGED <<account, age, guard, todo, loaded, shards, redis,
                   event_cache, redis_events, sweep>>

(* The cleanup task: DashMap::retain takes one lock after the other.       *)
Cleanup ==
    /\ ~Held(sweep)
    /\ shards' = [a \in Accounts |->
                    IF LockOf[a] = sweep /\ IsExpired(a) THEN Missing ELSE shards[a]]
    /\ sweep' = (sweep % NumLocks) + 1
    /\ UNCHANGED <<taskVars, redis, event_cache, redis_events>>

(* An insert, or the inserts of a chunk, take no time in comparison with a *)
(* ttl.                                                                    *)
Settled == \A t \in Tasks :
              /\ pc[t] \in {"filling", "inserting", "evicting"} => Held(LockOf[account[t]])
              /\ t \in warmers => pc[t] \notin {"warming_chunk", "filling_events"}

Older(n, max) == IF n < max THEN n + 1 ELSE n

(* Time passes, and Redis drops what has lived for its ttl.                *)
Tick ==
    /\ Settled
    /\ shards' = [a \in Accounts |->
                    IF shards[a] = Missing THEN Missing
                    ELSE [age |-> Older(shards[a].age, MaxAge),
                          here |-> Older(shards[a].here, default_ttl)]]
    /\ redis' = [a \in Accounts |->
                   IF redis[a] \in 0 .. default_ttl - 2 THEN redis[a] + 1 ELSE Absent]
    /\ UNCHANGED <<taskVars, event_cache, redis_events, sweep>>

Call(t, a) ==
    \/ GetAccount(t, a) \/ SetAccount(t, a) \/ DeleteAccount(t, a)
    \/ InvalidateAccount(t, a)
    \/ GetAccountEvents(t, a) \/ SetAccountEvents(t, a) \/ DeleteAccountEvents(t, a)

Warm(t) == Initialize(t) \/ \E account_ids \in SUBSET config.accounts : WarmupCache(t, account_ids)

ProceedCall(t) ==
    \/ FetchAccount(t) \/ CheckSize(t) \/ EvictEntries(t) \/ Insert(t)
    \/ InvalidateShard(t) \/ InvalidateRedis(t) \/ InvalidateEvents(t)
    \/ FetchEvents(t) \/ InsertEvents(t) \/ DropEvents(t)

ProceedWarmup(t) == WarmupFetch(t) \/ WarmupNext(t) \/ WarmupEnd(t)

Run(t) ==
    /\ (ProceedCall(t) /\ UNCHANGED warmVars) \/ ProceedWarmup(t)
    /\ UNCHANGED config

Next ==
    \/ \E t \in Tasks : Run(t) \/ (Warm(t) /\ UNCHANGED config)
    \/ \E t \in Tasks, a \in config.accounts : Call(t, a) /\ UNCHANGED <<config, warmVars>>
    \/ Cleanup /\ UNCHANGED <<config, warmVars>>
    \/ Tick /\ UNCHANGED <<config, warmVars>>

Spec == Init /\ [][Next]_vars

(* Every thread that can go on does.                                       *)
FairSpec == Spec /\ \A t \in Tasks : WF_vars(Run(t))

-----------------------------------------------------------------------------
(* A value served from L1 was set less than two ttls ago: it entered L1    *)
(* from Redis, where its own ttl was running, and nothing renews it there. *)
StalenessBound ==
    \A a \in Accounts :
        shards[a] # Missing /\ ~IsExpired(a) => shards[a].age =< 2 * default_ttl - 2

(* The size of a shard is read before the insert and not with it; tasks    *)
(* that passed the test together may overshoot max_size, by one less than  *)
(* there are tasks, and no more however long they run.                     *)
ShardBound ==
    \A a \in Accounts :
        Cardinality(Cached(ShardOf[a])) =< max_size - 1 + Cardinality(Tasks)

(* A task that will not go on: it waits for itself, or for one that does.  *)
Stuck(t) ==
    \/ pc[t] = "blocked"
    \/ pc[t] \in {"inserting", "invalidating"} /\ Held(LockOf[account[t]])

(* A task that waits for a lock waits for a blocked one: whatever does not *)
(* touch the lock of a blocked task goes on and returns.                   *)
OthersReturn == \A t \in Tasks : pc[t] # "idle" ~> (pc[t] = "idle" \/ Stuck(t))

(* At most one warmup runs, and is_warming is set for as long as it does:  *)
(* no call, not even a failed one, clears the mark of another.  Nothing    *)
(* but the end of a warmup clears it, so a mark that no warmup stands for, *)
(* set by initialize or left by a warmup that Redis failed, is there for   *)
(* good, and no warmup runs from then on.                                  *)
WarmupsExclude ==
    /\ [](Cardinality(warmers) =< 1 /\ (warmers # {} => is_warming))
    /\ [][is_warming /\ warmers = {} => is_warming' /\ warmers' = {}]_vars

(* A warmup that Redis answers comes to its end, and the next may start,   *)
(* unless it stops at a lock.                                              *)
WarmupEnds ==
    (warmers # {} /\ ~RedisFails) ~> (~is_warming \/ \E t \in warmers : Stuck(t))
=============================================================================
