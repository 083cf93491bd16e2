------------------------- MODULE CacheServiceProofs -------------------------
(***************************************************************************)
(* Proofs about CacheService, for any number of tasks and accounts, any    *)
(* assignment of accounts to shards and to locks, and any configuration.   *)
(***************************************************************************)
EXTENDS CacheService, FiniteSetTheorems, TLAPS

Stages == {"idle", "fetching", "filling", "evicting", "inserting", "blocked", "invalidating",
           "deleting", "deleting_events", "fetching_events", "filling_events",
           "dropping_events", "warming", "warming_chunk"}

(* How old a value in Redis is, or one that was read from it.              *)
Ages == Absent .. default_ttl - 1

(* An entry of L1 was young enough for Redis when it was entered.          *)
Entry(e) ==
    \/ e = Missing
    \/ /\ e \in [age : Nat, here : Nat]
       /\ e.here =< default_ttl
       /\ e.age =< default_ttl - 1 + e.here

TypeInv ==
    /\ config \in Configs
    /\ pc \in [Tasks -> Stages]
    /\ account \in [Tasks -> Accounts]
    /\ age \in [Tasks -> 0 .. default_ttl - 1]
    /\ DOMAIN shards = Accounts
    /\ \A a \in Accounts : Entry(shards[a])
    /\ redis \in [Accounts -> Ages]
    /\ loaded \in [Tasks -> [Accounts -> Ages]]
    /\ warmers \subseteq Tasks \ Updaters

(* The warmup that set is_warming is the one that may clear it.            *)
WarmInv ==
    /\ \A t \in Tasks : pc[t] \in {"warming", "warming_chunk"} => t \in warmers
    /\ \A t, u \in warmers : t = u
    /\ warmers # {} => is_warming

(* The tasks that passed the test of the size and are about to insert.     *)
Inserting(shard) == {t \in Tasks : pc[t] = "inserting" /\ ShardOf[account[t]] = shard}

(* What a shard holds and is about to hold.                                *)
SizeInv ==
    \A a \in Accounts :
        Cardinality(Cached(ShardOf[a])) + Cardinality(Inserting(ShardOf[a]))
            =< max_size - 1 + Cardinality(Tasks)

Inv == TypeInv /\ WarmInv /\ SizeInv

-----------------------------------------------------------------------------
LEMMA ConfigType ==
    ASSUME config \in Configs
    PROVE  /\ default_ttl \in Nat \ {0} /\ max_size \in Nat \ {0}
           /\ config.accounts \subseteq Accounts
  BY CacheServiceAssumption DEF ConfigsAssumption, default_ttl, max_size

LEMMA AnyAccountType == AnyAccount \in Accounts
  BY CacheServiceAssumption DEF AnyAccount

(* A task goes to stage s with account a.                                  *)
Moves(t, s, a) ==
    /\ pc' = [pc EXCEPT ![t] = s]
    /\ account' = [account EXCEPT ![t] = a]

(* Where Return leads.                                                     *)
LEMMA ReturnMoves ==
    ASSUME TypeInv, NEW t \in Tasks, Return(t)
    PROVE  /\ age' = [age EXCEPT ![t] = 0]
           /\ \E s \in {"dropping_events", "filling_events", "warming_chunk", "idle"},
                 a \in Accounts :
                 Moves(t, s, a) /\ (s = "warming_chunk" => t \in warmers)
  <1>1. age' = [age EXCEPT ![t] = 0]
    BY DEF Return
  <1>2. account = [account EXCEPT ![t] = account[t]] /\ account[t] \in Accounts
    BY DEF TypeInv
  <1>3. CASE t \in Updaters /\ pc[t] # "dropping_events"
    <2>1. Moves(t, "dropping_events", account[t])
      <3>1. t \notin warmers
        BY <1>3 DEF TypeInv
      <3> QED
        BY <1>2, <1>3, <3>1 DEF Return, Goto, Moves
    <2> QED
      BY <1>1, <1>2, <2>1
  <1>4. CASE ~(t \in Updaters /\ pc[t] # "dropping_events") /\ t \in warmers /\ pc[t] = "inserting"
    <2>1. Moves(t, "filling_events", account[t])
      BY <1>2, <1>4 DEF Return, Goto, Moves
    <2> QED
      BY <1>1, <1>2, <2>1
  <1>5. CASE /\ ~(t \in Updaters /\ pc[t] # "dropping_events")
             /\ t \in warmers /\ pc[t] = "filling_events"
    <2>1. Moves(t, "warming_chunk", AnyAccount)
      BY <1>5 DEF Return, Enter, Goto, Moves
    <2> QED
      BY <1>1, <1>5, <2>1, AnyAccountType
  <1>6. CASE /\ ~(t \in Updaters /\ pc[t] # "dropping_events")
             /\ ~(t \in warmers /\ pc[t] = "inserting")
             /\ ~(t \in warmers /\ pc[t] = "filling_events")
    <2>1. Moves(t, "idle", AnyAccount)
      BY <1>6 DEF Return, Enter, Goto, Moves
    <2> QED
      BY <1>1, <2>1, AnyAccountType
  <1> QED
    BY <1>3, <1>4, <1>5, <1>6

(* Once config is unchanged, what depends on it is.                        *)
LEMMA ConfigStays ==
    ASSUME UNCHANGED config
    PROVE  default_ttl' = default_ttl /\ max_size' = max_size /\ Updaters' = Updaters /\ Ages' = Ages
  BY DEF default_ttl, max_size, Updaters, Ages, Absent

LEMMA InitType == Init => TypeInv
  <1> SUFFICES ASSUME Init PROVE TypeInv
    OBVIOUS
  <1>1. config \in Configs
    BY DEF Init
  <1>2. default_ttl \in Nat \ {0}
    BY <1>1, ConfigType
  <1>3. Absent \in Ages
    BY <1>2 DEF Ages, Absent
  <1> QED
    BY <1>1, <1>2, <1>3, AnyAccountType DEF Init, TypeInv, Stages, Entry, Nothing

(* A step that leaves L1 alone and keeps the types of what it changes.     *)
LEMMA TypeFrame ==
    ASSUME TypeInv, UNCHANGED <<config, shards>>,
           pc' \in [Tasks -> Stages], account' \in [Tasks -> Accounts],
           age' \in [Tasks -> 0 .. default_ttl - 1], redis' \in [Accounts -> Ages],
           loaded' \in [Tasks -> [Accounts -> Ages]], warmers' \subseteq Tasks \ Updaters
    PROVE  TypeInv'
  <1>1. default_ttl' = default_ttl /\ Updaters' = Updaters /\ Ages' = Ages
    BY ConfigStays
  <1>2. \A a \in Accounts : Entry(shards[a])'
    BY <1>1 DEF TypeInv, Entry
  <1> QED
    BY <1>1, <1>2 DEF TypeInv

(* A task that moves, and one that stays.                                  *)
LEMMA MovesType ==
    ASSUME TypeInv, NEW t \in Tasks, NEW s \in Stages, NEW a \in Accounts, Moves(t, s, a)
    PROVE  pc' \in [Tasks -> Stages] /\ account' \in [Tasks -> Accounts]
  BY DEF Moves, TypeInv

LEMMA WarmFrame ==
    ASSUME TypeInv, WarmInv, NEW t \in Tasks, NEW s \in Stages, NEW a \in Accounts,
           UNCHANGED <<warmers, is_warming>>,
           UNCHANGED <<pc, account>> \/ Moves(t, s, a),
           s \in {"warming", "warming_chunk"} => t \in warmers
    PROVE  WarmInv'
  BY DEF WarmInv, Moves, TypeInv

LEMMA FiniteParts ==
    ASSUME NEW shard
    PROVE  /\ IsFiniteSet(Cached(shard)) /\ Cardinality(Cached(shard)) \in Nat
           /\ IsFiniteSet(Inserting(shard)) /\ Cardinality(Inserting(shard)) \in Nat
           /\ Cardinality(Inserting(shard)) =< Cardinality(Tasks)
           /\ Cardinality(Tasks) \in Nat
  <1>1. Cached(shard) \subseteq Accounts /\ Inserting(shard) \subseteq Tasks
    BY DEF Cached, Inserting
  <1>2. IsFiniteSet(Cached(shard)) /\ IsFiniteSet(Inserting(shard))
    BY <1>1, FS_Subset, CacheServiceAssumption
  <1> QED
    BY <1>1, <1>2, FS_Subset, FS_CardinalityType, CacheServiceAssumption

(* No new entry, and no new task that is about to make one.                *)
LEMMA SizeFrame ==
    ASSUME TypeInv, SizeInv, UNCHANGED config,
           \A b \in Accounts : shards'[b] # Missing => shards[b] # Missing,
           \A u \in Tasks : pc'[u] = "inserting" => pc[u] = "inserting" /\ account'[u] = account[u]
    PROVE  SizeInv'
  <1> SUFFICES ASSUME NEW b \in Accounts
               PROVE  Cardinality(Cached(ShardOf[b]))' + Cardinality(Inserting(ShardOf[b]))'
                         =< max_size' - 1 + Cardinality(Tasks)
    BY DEF SizeInv
  <1> DEFINE shard == ShardOf[b]
  <1>1. max_size' = max_size /\ max_size \in Nat
    BY ConfigStays, ConfigType DEF TypeInv
  <1>2. Cached(shard)' \subseteq Cached(shard) /\ Inserting(shard)' \subseteq Inserting(shard)
    BY DEF Cached, Inserting, Missing
  <1>3. /\ Cardinality(Cached(shard)') =< Cardinality(Cached(shard))
        /\ Cardinality(Inserting(shard)') =< Cardinality(Inserting(shard))
        /\ Cardinality(Cached(shard)') \in Nat /\ Cardinality(Inserting(shard)') \in Nat
    BY <1>2, FiniteParts, FS_Subset, FS_CardinalityType
  <1>4. Cardinality(Cached(shard)) + Cardinality(Inserting(shard)) =< max_size - 1 + Cardinality(Tasks)
    BY DEF SizeInv
  <1> QED
    BY <1>1, <1>3, <1>4, FiniteParts

(* A task goes on, and leaves L1 and the warmups' mark alone.              *)
LEMMA PassStep ==
    ASSUME Inv, NEW t \in Tasks, NEW s \in Stages \ {"inserting"}, NEW a \in Accounts,
           UNCHANGED <<config, shards, warmers, is_warming>>,
           UNCHANGED <<pc, account>> \/ Moves(t, s, a),
           s \in {"warming", "warming_chunk"} => t \in warmers,
           age' \in [Tasks -> 0 .. default_ttl - 1], redis' \in [Accounts -> Ages],
           loaded' \in [Tasks -> [Accounts -> Ages]]
    PROVE  Inv'
  <1>1. pc' \in [Tasks -> Stages] /\ account' \in [Tasks -> Accounts]
    BY MovesType DEF Inv, TypeInv
  <1>2. TypeInv'
    BY <1>1, TypeFrame DEF Inv, TypeInv
  <1>3. WarmInv'
    BY WarmFrame DEF Inv
  <1>4. SizeInv'
    BY SizeFrame DEF Inv, TypeInv, Moves
  <1> QED
    BY <1>2, <1>3, <1>4 DEF Inv

(* The calls change neither L1 nor what a warmup has.                      *)
LEMMA CallStep ==
    ASSUME Inv, NEW t \in Tasks, NEW a \in config.accounts,
           Call(t, a) /\ UNCHANGED <<config, warmVars>>
    PROVE  Inv'
  <1> USE DEF Enter, Goto
  <1>1. a \in Accounts /\ default_ttl \in Nat \ {0}
    BY ConfigType DEF Inv, TypeInv
  <1>2. 0 \in Ages /\ Absent \in Ages
    BY <1>1 DEF Ages, Absent
  <1>3. UNCHANGED <<config, shards, age, loaded, warmers, is_warming>>
    BY DEF Call, GetAccount, SetAccount, DeleteAccount, InvalidateAccount, GetAccountEvents,
           SetAccountEvents, DeleteAccountEvents, DeleteEvents, warmVars
  <1>4. redis' \in [Accounts -> Ages]
    BY <1>1, <1>2 DEF Inv, TypeInv, Call, GetAccount, SetAccount, DeleteAccount, InvalidateAccount,
           GetAccountEvents, SetAccountEvents, DeleteAccountEvents, DeleteEvents
  <1>5. PICK s \in Stages \ {"inserting", "warming", "warming_chunk"} :
            UNCHANGED <<pc, account>> \/ Moves(t, s, a)
    BY DEF Moves, Stages, Call, GetAccount, SetAccount, DeleteAccount, InvalidateAccount,
           GetAccountEvents, SetAccountEvents, DeleteAccountEvents, DeleteEvents
  <1>6. age' \in [Tasks -> 0 .. default_ttl - 1] /\ loaded' \in [Tasks -> [Accounts -> Ages]]
    BY <1>3 DEF Inv, TypeInv
  <1> QED
    BY <1>1, <1>3, <1>4, <1>5, <1>6, PassStep

(* The steps of a call that do not touch L1's accounts.                    *)
LEMMA ProceedStep ==
    ASSUME Inv, NEW t \in Tasks, UNCHANGED <<config, warmVars>>,
           \/ FetchAccount(t) \/ InvalidateRedis(t) \/ InvalidateEvents(t)
           \/ FetchEvents(t) \/ InsertEvents(t) \/ DropEvents(t)
    PROVE  Inv'
  <1> USE DEF Goto
  <1>1. default_ttl \in Nat \ {0} /\ TypeInv
    BY ConfigType DEF Inv, TypeInv
  <1>2. Absent \in Ages /\ account[t] \in Accounts /\ account = [account EXCEPT ![t] = account[t]]
    BY <1>1 DEF Ages, Absent, TypeInv
  <1>3. UNCHANGED <<config, shards, loaded, warmers, is_warming>>
    BY DEF FetchAccount, InvalidateRedis, InvalidateEvents, FetchEvents, InsertEvents,
           DropEvents, DeleteEvents, warmVars
  <1>4. redis' \in [Accounts -> Ages]
    BY <1>1, <1>2 DEF TypeInv, FetchAccount, InvalidateRedis, InvalidateEvents, FetchEvents,
           InsertEvents, DropEvents, DeleteEvents
  <1>5. CASE Return(t)
    <2>1. age' \in [Tasks -> 0 .. default_ttl - 1]
      BY <1>1, <1>5, ReturnMoves DEF TypeInv
    <2> QED
      BY <1>1, <1>3, <1>4, <1>5, <2>1, ReturnMoves, PassStep, ZenonT(30) DEF TypeInv, Stages
  <1>6. CASE ~Return(t)
    <2>1. age' \in [Tasks -> 0 .. default_ttl - 1]
      <3>1. redis[account[t]] # Absent => redis[account[t]] \in 0 .. default_ttl - 1
        BY <1>1, <1>2 DEF TypeInv, Ages, Absent
      <3> QED
        BY <1>1, <1>6, <3>1 DEF TypeInv, FetchAccount, InvalidateRedis, InvalidateEvents,
               FetchEvents, InsertEvents, DropEvents
    <2>2. PICK s \in {"filling", "deleting_events", "filling_events"} : Moves(t, s, account[t])
      BY <1>2, <1>6 DEF Moves, FetchAccount, InvalidateRedis, InvalidateEvents, FetchEvents,
             InsertEvents, DropEvents
    <2> QED
      BY <1>1, <1>2, <1>3, <1>4, <2>1, <2>2, PassStep, ZenonT(30) DEF TypeInv, Stages
  <1> QED
    BY <1>5, <1>6

(* A task that found room, or found the shard empty, is about to insert:   *)
(* there is room for it and for every other task.                          *)
LEMMA RoomForAll ==
    ASSUME Inv, NEW t \in Tasks, UNCHANGED <<config, shards>>,
           Moves(t, "inserting", account[t]),
           Cardinality(Cached(ShardOf[account[t]])) < max_size
    PROVE  SizeInv'
  <1> SUFFICES ASSUME NEW b \in Accounts
               PROVE  Cardinality(Cached(ShardOf[b]))' + Cardinality(Inserting(ShardOf[b]))'
                         =< max_size' - 1 + Cardinality(Tasks)
    BY DEF SizeInv
  <1> DEFINE shard == ShardOf[b]
  <1>1. max_size' = max_size /\ max_size \in Nat \ {0}
    BY ConfigStays, ConfigType DEF Inv, TypeInv
  <1>2. Cached(shard)' = Cached(shard)
    BY DEF Cached
  <1>3. Inserting(shard)' \subseteq Tasks
    BY DEF Inserting
  <1>4. /\ Cardinality(Inserting(shard)') \in Nat
        /\ Cardinality(Inserting(shard)') =< Cardinality(Tasks) /\ Cardinality(Tasks) \in Nat
    BY <1>3, FS_Subset, FS_CardinalityType, CacheServiceAssumption
  <1>5. Cardinality(Cached(shard)) \in Nat
    BY FiniteParts
  <1>6. CASE shard = ShardOf[account[t]]
    BY <1>1, <1>2, <1>4, <1>5, <1>6
  <1>7. CASE shard # ShardOf[account[t]]
    <2>1. Inserting(shard)' = Inserting(shard)
      BY <1>7 DEF Inserting, Moves, Inv, TypeInv
    <2>2. Cardinality(Cached(shard)) + Cardinality(Inserting(shard)) =< max_size - 1 + Cardinality(Tasks)
      BY DEF Inv, SizeInv
    <2> QED
      BY <1>1, <1>2, <2>1, <2>2
  <1> QED
    BY <1>6, <1>7

LEMMA CheckSizeStep ==
    ASSUME Inv, NEW t \in Tasks, CheckSize(t), UNCHANGED <<config, warmVars>>
    PROVE  Inv'
  <1>1. account[t] \in Accounts /\ account = [account EXCEPT ![t] = account[t]]
    BY DEF Inv, TypeInv
  <1>2. UNCHANGED <<config, shards, age, redis, loaded, warmers, is_warming>>
    BY DEF CheckSize, warmVars
  <1>3. /\ age' \in [Tasks -> 0 .. default_ttl - 1] /\ redis' \in [Accounts -> Ages]
        /\ loaded' \in [Tasks -> [Accounts -> Ages]]
    BY <1>2 DEF Inv, TypeInv
  <1>4. CASE Cardinality(Cached(ShardOf[account[t]])) >= max_size
    <2>1. Moves(t, "evicting", account[t])
      BY <1>1, <1>4 DEF CheckSize, Goto, Moves
    <2> QED
      BY <1>1, <1>2, <1>3, <2>1, PassStep DEF Stages
  <1>5. CASE ~(Cardinality(Cached(ShardOf[account[t]])) >= max_size)
    <2>1. Moves(t, "inserting", account[t])
      BY <1>1, <1>5 DEF CheckSize, Goto, Moves
    <2>2. pc' \in [Tasks -> Stages] /\ account' \in [Tasks -> Accounts]
      BY <1>1, <2>1, MovesType DEF Inv, Stages
    <2>3. TypeInv'
      BY <1>2, <1>3, <2>2, TypeFrame DEF Inv, TypeInv
    <2>4. WarmInv'
      BY <1>1, <1>2, <2>1, WarmFrame DEF Inv, Stages
    <2>5. Cardinality(Cached(ShardOf[account[t]])) < max_size
      BY <1>5, FiniteParts, ConfigType DEF Inv, TypeInv
    <2>6. SizeInv'
      BY <1>2, <2>1, <2>5, RoomForAll
    <2> QED
      BY <2>3, <2>4, <2>6 DEF Inv
  <1> QED
    BY <1>4, <1>5

LEMMA EvictStep ==
    ASSUME Inv, NEW t \in Tasks, EvictEntries(t), UNCHANGED <<config, warmVars>>
    PROVE  Inv'
  <1>1. account[t] \in Accounts /\ account = [account EXCEPT ![t] = account[t]]
    BY DEF Inv, TypeInv
  <1>2. UNCHANGED <<config, shards, age, redis, loaded, warmers, is_warming>>
    BY DEF EvictEntries, warmVars
  <1>3. /\ age' \in [Tasks -> 0 .. default_ttl - 1] /\ redis' \in [Accounts -> Ages]
        /\ loaded' \in [Tasks -> [Accounts -> Ages]]
    BY <1>2 DEF Inv, TypeInv
  <1>4. \/ Moves(t, "blocked", account[t])
        \/ Cached(ShardOf[account[t]]) = {} /\ Moves(t, "inserting", account[t])
    BY <1>1 DEF EvictEntries, Goto, Moves
  <1>5. CASE Moves(t, "blocked", account[t])
    BY <1>1, <1>2, <1>3, <1>5, PassStep DEF Stages
  <1>6. CASE Cached(ShardOf[account[t]]) = {} /\ Moves(t, "inserting", account[t])
    <2>1. pc' \in [Tasks -> Stages] /\ account' \in [Tasks -> Accounts]
      BY <1>1, <1>6, MovesType DEF Inv, Stages
    <2>2. TypeInv'
      BY <1>2, <1>3, <2>1, TypeFrame DEF Inv, TypeInv
    <2>3. WarmInv'
      BY <1>1, <1>2, <1>6, WarmFrame DEF Inv, Stages
    <2>4. Cardinality(Cached(ShardOf[account[t]])) < max_size
      BY <1>6, FS_EmptySet, ConfigType DEF Inv, TypeInv
    <2>5. SizeInv'
      BY <1>2, <1>6, <2>4, RoomForAll
    <2> QED
      BY <2>2, <2>3, <2>5 DEF Inv
  <1> QED
    BY <1>4, <1>5, <1>6

(* L1 changes, and its entries keep their type.                            *)
LEMMA EntriesFrame ==
    ASSUME TypeInv, UNCHANGED <<config, loaded, warmers>>,
           pc' \in [Tasks -> Stages], account' \in [Tasks -> Accounts],
           age' \in [Tasks -> 0 .. default_ttl - 1], redis' \in [Accounts -> Ages],
           DOMAIN shards' = Accounts, \A a \in Accounts : Entry(shards'[a])
    PROVE  TypeInv'
  <1>1. default_ttl' = default_ttl /\ Updaters' = Updaters /\ Ages' = Ages
    BY ConfigStays
  <1>2. \A a \in Accounts : Entry(shards[a])'
    BY <1>1 DEF Entry
  <1> QED
    BY <1>1, <1>2 DEF TypeInv

(* The entry a task makes takes the place it was counted for.              *)
LEMMA InsertStep ==
    ASSUME Inv, NEW t \in Tasks, Insert(t), UNCHANGED <<config, warmVars>>
    PROVE  Inv'
  <1> DEFINE x == account[t]
  <1>1. TypeInv /\ x \in Accounts /\ default_ttl \in Nat \ {0} /\ age[t] \in 0 .. default_ttl - 1
    BY ConfigType DEF Inv, TypeInv
  <1>2. /\ UNCHANGED <<config, redis, loaded, warmers, is_warming>> /\ pc[t] = "inserting"
        /\ shards' = [shards EXCEPT ![x] = [age |-> age[t], here |-> 0]]
        /\ Return(t)
    BY DEF Insert, warmVars
  <1>3. PICK s \in {"dropping_events", "filling_events", "warming_chunk", "idle"}, a \in Accounts :
            Moves(t, s, a) /\ (s = "warming_chunk" => t \in warmers)
    BY <1>1, <1>2, ReturnMoves
  <1>4. TypeInv'
    <2>1. pc' \in [Tasks -> Stages] /\ account' \in [Tasks -> Accounts]
      BY <1>1, <1>3, MovesType DEF Stages
    <2>2. age' \in [Tasks -> 0 .. default_ttl - 1]
      BY <1>1, <1>2, ReturnMoves DEF TypeInv
    <2>3. DOMAIN shards' = Accounts /\ \A b \in Accounts : Entry(shards'[b])
      <3>1. Entry([age |-> age[t], here |-> 0])
        BY <1>1 DEF Entry
      <3>2. DOMAIN shards = Accounts /\ \A b \in Accounts : Entry(shards[b])
        BY DEF Inv, TypeInv
      <3>3. \A b \in Accounts : shards'[b] = IF b = x THEN [age |-> age[t], here |-> 0] ELSE shards[b]
        BY <1>1, <1>2, <3>2
      <3> QED
        BY <1>2, <3>1, <3>2, <3>3
    <2> QED
      BY <1>1, <1>2, <2>1, <2>2, <2>3, EntriesFrame DEF TypeInv
  <1>5. WarmInv'
    BY <1>1, <1>2, <1>3, WarmFrame DEF Inv, Stages
  <1>6. SizeInv'
    <2> SUFFICES ASSUME NEW b \in Accounts
                 PROVE  Cardinality(Cached(ShardOf[b]))' + Cardinality(Inserting(ShardOf[b]))'
                           =< max_size' - 1 + Cardinality(Tasks)
      BY DEF SizeInv
    <2> DEFINE shard == ShardOf[b]
    <2>1. max_size' = max_size /\ max_size \in Nat
      BY <1>1, <1>2, ConfigStays, ConfigType DEF TypeInv
    <2>2. Cardinality(Cached(shard)) + Cardinality(Inserting(shard)) =< max_size - 1 + Cardinality(Tasks)
      BY DEF Inv, SizeInv
    <2>3. DOMAIN shards = Accounts
      BY <1>1 DEF TypeInv
    <2>4. CASE shard = ShardOf[x]
      <3>1. Cached(shard)' \subseteq Cached(shard) \cup {x}
        BY <1>2, <2>3 DEF Cached, Missing
      <3>2. Inserting(shard)' = Inserting(shard) \ {t} /\ t \in Inserting(shard)
        BY <1>1, <1>2, <1>3, <2>4 DEF Inserting, Moves, TypeInv
      <3>3. /\ Cardinality(Cached(shard)') =< Cardinality(Cached(shard)) + 1
            /\ Cardinality(Cached(shard)') \in Nat
        <4> HIDE DEF shard, x
        <4>1. /\ IsFiniteSet(Cached(shard) \cup {x})
              /\ Cardinality(Cached(shard) \cup {x}) =< Cardinality(Cached(shard)) + 1
              /\ Cardinality(Cached(shard) \cup {x}) \in Nat
          <5>1. IsFiniteSet(Cached(shard)) /\ Cardinality(Cached(shard)) \in Nat
            BY FiniteParts
          <5>2. /\ IsFiniteSet(Cached(shard) \cup {x})
                /\ Cardinality(Cached(shard) \cup {x}) =
                      IF x \in Cached(shard) THEN Cardinality(Cached(shard))
                                             ELSE Cardinality(Cached(shard)) + 1
            BY <5>1, FS_AddElement
          <5> QED
            BY <5>1, <5>2
        <4>2. /\ Cardinality(Cached(shard)') =< Cardinality(Cached(shard) \cup {x})
              /\ Cardinality(Cached(shard)') \in Nat
          BY <3>1, <4>1, FS_Subset, FS_CardinalityType
        <4> QED
          BY <4>1, <4>2, FiniteParts
      <3>4. Cardinality(Inserting(shard)') = Cardinality(Inserting(shard)) - 1
        BY <3>2, FiniteParts, FS_RemoveElement, ZenonT(30)
      <3> QED
        BY <2>1, <2>2, <3>3, <3>4, FiniteParts
    <2>5. CASE shard # ShardOf[x]
      <3>1. Cached(shard)' = Cached(shard)
        BY <1>2, <2>3, <2>5 DEF Cached
      <3>2. Inserting(shard)' = Inserting(shard)
        BY <1>1, <1>2, <1>3, <2>5 DEF Inserting, Moves, TypeInv
      <3> QED
        BY <2>1, <2>2, <3>1, <3>2
    <2> QED
      BY <2>4, <2>5
  <1> QED
    BY <1>4, <1>5, <1>6 DEF Inv

LEMMA InvalidateShardStep ==
    ASSUME Inv, NEW t \in Tasks, InvalidateShard(t), UNCHANGED <<config, warmVars>>
    PROVE  Inv'
  <1>1. /\ UNCHANGED <<config, age, redis, loaded, warmers, is_warming>>
        /\ shards' = [shards EXCEPT ![account[t]] = Missing]
    BY DEF InvalidateShard, warmVars
  <1>2. account[t] \in Accounts /\ account = [account EXCEPT ![t] = account[t]]
    BY DEF Inv, TypeInv
  <1>3. Moves(t, "deleting", account[t])
    BY <1>2 DEF InvalidateShard, Goto, Moves
  <1>4. DOMAIN shards' = Accounts /\ \A b \in Accounts : shards'[b] = shards[b] \/ shards'[b] = Missing
    BY <1>1 DEF Inv, TypeInv
  <1>5. TypeInv'
    <2>1. pc' \in [Tasks -> Stages] /\ account' \in [Tasks -> Accounts]
      BY <1>2, <1>3, MovesType DEF Inv, Stages
    <2>2. \A b \in Accounts : Entry(shards'[b])
      BY <1>4 DEF Inv, TypeInv, Entry
    <2> QED
      BY <1>1, <1>4, <2>1, <2>2, EntriesFrame DEF Inv, TypeInv
  <1>6. WarmInv'
    BY <1>1, <1>2, <1>3, WarmFrame DEF Inv, Stages
  <1>7. SizeInv'
    BY <1>1, <1>3, <1>4, SizeFrame DEF Inv, TypeInv, Moves
  <1> QED
    BY <1>5, <1>6, <1>7 DEF Inv

LEMMA CleanupStep ==
    ASSUME Inv, Cleanup, UNCHANGED <<config, warmVars>>
    PROVE  Inv'
  <1>1. UNCHANGED <<config, pc, account, age, redis, loaded, warmers, is_warming>>
    BY DEF Cleanup, taskVars, warmVars
  <1>2. DOMAIN shards' = Accounts /\ \A b \in Accounts : shards'[b] = shards[b] \/ shards'[b] = Missing
    BY DEF Cleanup
  <1>3. TypeInv'
    <2>1. \A b \in Accounts : Entry(shards'[b])
      BY <1>2 DEF Inv, TypeInv, Entry
    <2> QED
      BY <1>1, <1>2, <2>1, EntriesFrame DEF Inv, TypeInv
  <1>4. WarmInv'
    BY <1>1 DEF Inv, WarmInv
  <1>5. SizeInv'
    BY <1>1, <1>2, SizeFrame DEF Inv
  <1> QED
    BY <1>3, <1>4, <1>5 DEF Inv

LEMMA TickStep ==
    ASSUME Inv, Tick, UNCHANGED <<config, warmVars>>
    PROVE  Inv'
  <1>1. UNCHANGED <<config, pc, account, age, loaded, warmers, is_warming>>
    BY DEF Tick, taskVars, warmVars
  <1>2. default_ttl \in Nat \ {0} /\ TypeInv
    BY ConfigType DEF Inv, TypeInv
  <1>3. redis' \in [Accounts -> Ages]
    BY <1>2 DEF Tick, Ages, Absent
  <1>4. DOMAIN shards' = Accounts
    BY DEF Tick
  <1>5. ASSUME NEW b \in Accounts
        PROVE  Entry(shards'[b]) /\ (shards'[b] # Missing => shards[b] # Missing)
    <2>1. CASE shards[b] = Missing
      BY <2>1 DEF Tick, Entry
    <2>2. CASE shards[b] # Missing
      <3>1. /\ shards[b].age \in Nat /\ shards[b].here \in Nat /\ shards[b].here =< default_ttl
            /\ shards[b].age =< default_ttl - 1 + shards[b].here
        BY <1>2, <2>2 DEF TypeInv, Entry
      <3>2. shards'[b] = [age |-> Older(shards[b].age, MaxAge), here |-> Older(shards[b].here, default_ttl)]
        BY <2>2 DEF Tick
      <3>3. /\ Older(shards[b].age, MaxAge) \in Nat /\ Older(shards[b].here, default_ttl) \in Nat
            /\ Older(shards[b].here, default_ttl) =< default_ttl
            /\ Older(shards[b].age, MaxAge) =< default_ttl - 1 + Older(shards[b].here, default_ttl)
        BY <1>2, <3>1, SMTT(40) DEF Older, MaxAge
      <3> QED
        BY <2>2, <3>2, <3>3 DEF Entry
    <2> QED
      BY <2>1, <2>2
  <1>6. TypeInv'
    BY <1>1, <1>2, <1>3, <1>4, <1>5, EntriesFrame DEF TypeInv
  <1>7. WarmInv'
    BY <1>1 DEF Inv, WarmInv
  <1>8. SizeInv'
    BY <1>1, <1>5, SizeFrame DEF Inv
  <1> QED
    BY <1>6, <1>7, <1>8 DEF Inv

(* initialize and warmup_cache.  A warmup starts when no other runs.       *)
LEMMA WarmStep ==
    ASSUME Inv, NEW t \in Tasks, Warm(t), UNCHANGED config
    PROVE  Inv'
  <1>1. UNCHANGED <<config, account, age, redis, shards, loaded>>
    BY DEF Warm, Initialize, WarmupCache, taskVars
  <1>2. \/ UNCHANGED <<pc, warmers>> /\ (is_warming => is_warming')
        \/ /\ ~is_warming /\ is_warming' /\ t \notin Updaters
           /\ pc' = [pc EXCEPT ![t] = "warming"]
           /\ warmers' = warmers \cup {t}
    BY DEF Warm, Initialize, WarmupCache, MayCall, Goto, taskVars
  <1>3. pc' \in [Tasks -> Stages] /\ warmers' \subseteq Tasks \ Updaters
    BY <1>2 DEF Inv, TypeInv, Stages
  <1>4. TypeInv'
    BY <1>1, <1>3, TypeFrame DEF Inv, TypeInv
  <1>5. WarmInv'
    BY <1>2 DEF Inv, TypeInv, WarmInv
  <1>6. SizeInv'
    BY <1>1, <1>2, SizeFrame DEF Inv, TypeInv
  <1> QED
    BY <1>4, <1>5, <1>6 DEF Inv

(* The warmup that ends is the only one: clearing the mark is its own.     *)
LEMMA WarmupLeaves ==
    ASSUME Inv, NEW t \in Tasks, pc[t] = "warming",
           pc' = [pc EXCEPT ![t] = "idle"], warmers' = warmers \ {t},
           UNCHANGED <<config, account, age, redis, shards, loaded>>
    PROVE  Inv'
  <1>1. pc' \in [Tasks -> Stages] /\ warmers' \subseteq Tasks \ Updaters
    BY DEF Inv, TypeInv, Stages
  <1>2. TypeInv'
    BY <1>1, TypeFrame DEF Inv, TypeInv
  <1>3. warmers' = {}
    BY DEF Inv, WarmInv
  <1>4. WarmInv'
    <2>1. \A u \in Tasks : u # t => u \notin warmers
      BY DEF Inv, WarmInv
    <2> QED
      BY <1>3, <2>1 DEF Inv, TypeInv, WarmInv
  <1>5. SizeInv'
    BY SizeFrame DEF Inv, TypeInv
  <1> QED
    BY <1>2, <1>4, <1>5 DEF Inv

LEMMA WarmupStep ==
    ASSUME Inv, NEW t \in Tasks, ProceedWarmup(t), UNCHANGED config
    PROVE  Inv'
  <1> USE DEF Goto
  <1>1. /\ TypeInv /\ account[t] \in Accounts /\ account = [account EXCEPT ![t] = account[t]]
        /\ default_ttl \in Nat \ {0}
    BY ConfigType DEF Inv, TypeInv
  <1>2. pc[t] \in {"warming", "warming_chunk"} => t \in warmers
    BY DEF Inv, WarmInv
  <1>3. ASSUME UNCHANGED <<age, redis, shards, warmers, is_warming>>, pc[t] = "warming",
               Moves(t, "warming_chunk", account[t]),
               NEW chunk,
               loaded' = [loaded EXCEPT ![t] = [a \in Accounts |->
                             IF a \in chunk \cap redis_events THEN redis[a] ELSE Absent]]
        PROVE  Inv'
    <2>1. loaded' \in [Tasks -> [Accounts -> Ages]]
      BY <1>1, <1>3 DEF TypeInv, Ages, Absent
    <2> QED
      BY <1>1, <1>2, <1>3, <2>1, PassStep DEF TypeInv, Stages
  <1>4. CASE WarmupFetch(t)
    <2>1. CASE warmers' = warmers \ {t} /\ pc' = [pc EXCEPT ![t] = "idle"] /\ UNCHANGED loaded
      BY <1>4, <2>1, WarmupLeaves, ZenonT(30) DEF WarmupFetch
    <2>2. CASE \E chunk : /\ loaded' = [loaded EXCEPT ![t] = [a \in Accounts |->
                                           IF a \in chunk \cap redis_events THEN redis[a] ELSE Absent]]
                          /\ pc' = [pc EXCEPT ![t] = "warming_chunk"] /\ UNCHANGED warmers
      <3>1. UNCHANGED <<age, redis, shards, is_warming>> /\ pc[t] = "warming" /\ UNCHANGED account
        BY <1>4 DEF WarmupFetch
      <3>2. Moves(t, "warming_chunk", account[t])
        BY <1>1, <2>2, <3>1 DEF Moves
      <3> QED
        BY <1>3, <2>2, <3>1, <3>2
    <2> QED
      BY <1>4, <2>1, <2>2 DEF WarmupFetch
  <1>5. CASE WarmupNext(t)
    <2>1. /\ UNCHANGED <<redis, shards, warmers, is_warming>> /\ t \in warmers
      BY <1>2, <1>5 DEF WarmupNext
    <2>2. CASE pc' = [pc EXCEPT ![t] = "warming"] /\ UNCHANGED <<account, age, loaded>>
      <3>1. Moves(t, "warming", account[t])
        BY <1>1, <2>2 DEF Moves
      <3> QED
        BY <1>1, <2>1, <2>2, <3>1, PassStep DEF TypeInv, Stages
    <2>3. ASSUME NEW a \in Accounts, loaded[t][a] # Absent, Enter(t, a, "filling"),
                 age' = [age EXCEPT ![t] = loaded[t][a]],
                 loaded' = [loaded EXCEPT ![t][a] = Absent]
          PROVE  Inv'
      <3>1. loaded[t][a] \in Ages /\ Absent \in Ages
        BY <1>1 DEF TypeInv, Ages, Absent
      <3>2. loaded[t][a] \in 0 .. default_ttl - 1
        BY <1>1, <2>3, <3>1 DEF Ages, Absent
      <3>3. age' \in [Tasks -> 0 .. default_ttl - 1] /\ loaded' \in [Tasks -> [Accounts -> Ages]]
        BY <1>1, <2>3, <3>1, <3>2 DEF TypeInv
      <3>4. Moves(t, "filling", a)
        BY <2>3 DEF Enter, Moves
      <3> QED
        BY <1>1, <2>1, <3>3, <3>4, PassStep DEF TypeInv, Stages
    <2> QED
      BY <1>5, <2>2, <2>3 DEF WarmupNext
  <1>6. CASE WarmupEnd(t)
    BY <1>6, WarmupLeaves, ZenonT(30) DEF WarmupEnd
  <1> QED
    BY <1>4, <1>5, <1>6 DEF ProceedWarmup

LEMMA InitInv == Init => Inv
  <1> SUFFICES ASSUME Init PROVE Inv
    OBVIOUS
  <1>1. TypeInv
    BY InitType
  <1>2. WarmInv
    BY DEF Init, WarmInv
  <1>3. ASSUME NEW a \in Accounts PROVE Cached(ShardOf[a]) = {} /\ Inserting(ShardOf[a]) = {}
    BY DEF Init, Cached, Inserting
  <1>4. max_size \in Nat \ {0} /\ Cardinality(Tasks) \in Nat
    BY <1>1, ConfigType, FS_CardinalityType, CacheServiceAssumption DEF TypeInv
  <1>5. \A a \in Accounts :
            Cardinality(Cached(ShardOf[a])) = 0 /\ Cardinality(Inserting(ShardOf[a])) = 0
    BY <1>3, FS_EmptySet
  <1>6. SizeInv
    BY <1>4, <1>5 DEF SizeInv
  <1> QED
    BY <1>1, <1>2, <1>6 DEF Inv

LEMMA NextInv == Inv /\ [Next]_vars => Inv'
  <1> SUFFICES ASSUME Inv, [Next]_vars PROVE Inv'
    OBVIOUS
  <1>1. ASSUME NEW t \in Tasks, ProceedCall(t), UNCHANGED <<config, warmVars>> PROVE Inv'
    BY <1>1, ProceedStep, CheckSizeStep, EvictStep, InsertStep, InvalidateShardStep DEF ProceedCall
  <1>2. ASSUME NEW t \in Tasks, Run(t) PROVE Inv'
    <2>1. UNCHANGED config
      BY <1>2 DEF Run
    <2>2. CASE ProceedWarmup(t)
      BY <2>1, <2>2, WarmupStep
    <2>3. CASE ProceedCall(t) /\ UNCHANGED warmVars
      BY <1>1, <2>1, <2>3
    <2> QED
      BY <1>2, <2>2, <2>3 DEF Run
  <1>3. CASE UNCHANGED vars
    <2>1. UNCHANGED <<config, pc, account, age, redis, shards, loaded, warmers, is_warming>>
      BY <1>3 DEF vars, taskVars, warmVars
    <2>2. TypeInv'
      BY <2>1, TypeFrame DEF Inv, TypeInv
    <2>3. WarmInv'
      BY <2>1 DEF Inv, WarmInv
    <2>4. SizeInv'
      BY <2>1, SizeFrame DEF Inv
    <2> QED
      BY <2>2, <2>3, <2>4 DEF Inv
  <1> QED
    BY <1>2, <1>3, WarmStep, CallStep, CleanupStep, TickStep DEF Next

LEMMA InvHolds == Spec => []Inv
  BY InitInv, NextInv, PTL DEF Spec

-----------------------------------------------------------------------------
(* No value that get_account serves from L1 was set two ttls ago or more:  *)
(* an entry of L1 is never renewed, and what enters is younger than Redis  *)
(* keeps it.                                                               *)
THEOREM StalenessIsBounded == Spec => []StalenessBound
  <1>1. Inv => StalenessBound
    <2> SUFFICES ASSUME Inv, NEW a \in Accounts, shards[a] # Missing, ~IsExpired(a)
                 PROVE  shards[a].age =< 2 * default_ttl - 2
      BY DEF StalenessBound
    <2>1. default_ttl \in Nat /\ Entry(shards[a])
      BY ConfigType DEF Inv, TypeInv
    <2> QED
      BY <2>1 DEF Entry, IsExpired
  <1> QED
    BY InvHolds, <1>1, PTL

(* update_in_memory_cache tests the size and inserts without a lock; a     *)
(* shard never holds more than max_size - 1 entries and one for each task. *)
THEOREM ShardsAreBounded == Spec => []ShardBound
  <1>1. Inv => ShardBound
    <2> SUFFICES ASSUME Inv, NEW a \in Accounts
                 PROVE  Cardinality(Cached(ShardOf[a])) =< max_size - 1 + Cardinality(Tasks)
      BY DEF ShardBound
    <2>1. Cardinality(Cached(ShardOf[a])) + Cardinality(Inserting(ShardOf[a]))
             =< max_size - 1 + Cardinality(Tasks)
      BY DEF Inv, SizeInv
    <2>2. max_size \in Nat
      BY ConfigType DEF Inv, TypeInv
    <2> QED
      BY <2>1, <2>2, FiniteParts
  <1> QED
    BY InvHolds, <1>1, PTL

(* warmup_cache runs once at a time, and the mark it sets stays until it   *)
(* is over, whatever fails and whatever initialize does meanwhile.  A mark *)
(* with no warmup behind it is never cleared.                              *)
THEOREM OneWarmup == Spec => WarmupsExclude
  <1> DEFINE MarkStays == is_warming /\ warmers = {} => is_warming' /\ warmers' = {}
  <1>1. Inv => Cardinality(warmers) =< 1 /\ (warmers # {} => is_warming)
    <2> SUFFICES ASSUME Inv PROVE Cardinality(warmers) =< 1
      BY DEF Inv, WarmInv
    <2>1. CASE warmers = {}
      BY <2>1, FS_EmptySet
    <2>2. CASE warmers # {}
      <3>1. PICK t \in warmers : TRUE
        BY <2>2
      <3>2. warmers = {t}
        BY <3>1 DEF Inv, WarmInv
      <3>3. Cardinality({t}) = 1
        BY FS_Singleton
      <3> QED
        BY <3>2, <3>3
    <2> QED
      BY <2>1, <2>2
  <1>2. Inv /\ [Next]_vars => [MarkStays]_vars
    <2> SUFFICES ASSUME Inv, Next, is_warming, warmers = {}
                 PROVE  is_warming' /\ warmers' = {}
      OBVIOUS
    <2>1. CASE UNCHANGED warmVars
      BY <2>1 DEF warmVars
    <2>2. ASSUME NEW t \in Tasks, ProceedWarmup(t)
          PROVE  FALSE
      BY <2>2, Zenon DEF ProceedWarmup, WarmupFetch, WarmupNext, WarmupEnd, Inv, WarmInv
    <2>3. ASSUME NEW t \in Tasks, Warm(t)
          PROVE  is_warming' /\ warmers' = {}
      BY <2>3, Zenon DEF Warm, Initialize, WarmupCache
    <2> QED
      BY <2>1, <2>2, <2>3 DEF Next, Run
  <1> QED
    BY InvHolds, <1>1, <1>2, PTL DEF Spec, WarmupsExclude

-----------------------------------------------------------------------------
(* The types of what TypeInv leaves out.                                   *)
RestType ==
    /\ guard \in [Tasks -> 1 .. NumLocks]
    /\ event_cache \subseteq Accounts /\ redis_events \subseteq Accounts
    /\ sweep \in 1 .. NumLocks
    /\ is_warming \in BOOLEAN
    /\ todo \in [Tasks -> SUBSET Accounts]

LEMMA InitRest == Init => RestType
  <1> SUFFICES ASSUME Init PROVE RestType
    OBVIOUS
  <1>1. guard \in [Tasks -> 1 .. NumLocks] /\ sweep \in 1 .. NumLocks
    BY CacheServiceAssumption DEF Init
  <1>2. is_warming \in BOOLEAN
    BY Zenon DEF Init
  <1> QED
    BY <1>1, <1>2 DEF Init, RestType

LEMMA NextRest == Inv /\ RestType /\ [Next]_vars => RestType'
  <1> SUFFICES ASSUME Inv, RestType, [Next]_vars PROVE RestType'
    OBVIOUS
  <1> USE CacheServiceAssumption
  <1>1. /\ config.accounts \subseteq Accounts /\ account \in [Tasks -> Accounts]
        /\ DOMAIN shards = Accounts
    BY ConfigType DEF Inv, TypeInv
  <1>2. CASE UNCHANGED vars
    BY <1>2 DEF vars, taskVars, warmVars, RestType
  <1>3. ASSUME NEW t \in Tasks, NEW a \in Accounts, Call(t, a), UNCHANGED warmVars
        PROVE  RestType'
    <2>1. guard' \in [Tasks -> 1 .. NumLocks]
      BY <1>3 DEF RestType, Call, GetAccount, SetAccount, DeleteAccount, InvalidateAccount,
             GetAccountEvents, SetAccountEvents, DeleteAccountEvents, DeleteEvents
    <2>2. redis_events' \subseteq Accounts /\ UNCHANGED <<event_cache, sweep>>
      BY <1>3 DEF RestType, Call, GetAccount, SetAccount, DeleteAccount, InvalidateAccount,
             GetAccountEvents, SetAccountEvents, DeleteAccountEvents, DeleteEvents
    <2> QED
      BY <1>3, <2>1, <2>2 DEF RestType, warmVars
  <1>4. ASSUME NEW t \in Tasks, ProceedCall(t), UNCHANGED warmVars
        PROVE  RestType'
    <2>1. guard' \in [Tasks -> 1 .. NumLocks]
      BY <1>4 DEF RestType, Cached, ProceedCall, FetchAccount, CheckSize, EvictEntries, Insert,
             InvalidateShard, InvalidateRedis, InvalidateEvents, FetchEvents, InsertEvents,
             DropEvents, DeleteEvents
    <2>2. event_cache' \subseteq Accounts /\ redis_events' \subseteq Accounts /\ UNCHANGED sweep
      BY <1>1, <1>4, ZenonT(30) DEF RestType, ProceedCall, FetchAccount, CheckSize, EvictEntries, Insert,
             InvalidateShard, InvalidateRedis, InvalidateEvents, FetchEvents, InsertEvents,
             DropEvents, DeleteEvents
    <2> QED
      BY <1>4, <2>1, <2>2 DEF RestType, warmVars
  <1>5. ASSUME NEW t \in Tasks, ProceedWarmup(t)
        PROVE  RestType'
    <2>1. UNCHANGED <<guard, event_cache, redis_events, sweep>>
      BY <1>5 DEF ProceedWarmup, WarmupFetch, WarmupNext, WarmupEnd
    <2>2. is_warming' \in BOOLEAN
      BY <1>5, Zenon DEF RestType, ProceedWarmup, WarmupFetch, WarmupNext, WarmupEnd
    <2>3. todo' \in [Tasks -> SUBSET Accounts]
      BY <1>5 DEF RestType, ProceedWarmup, WarmupFetch, WarmupNext, WarmupEnd
    <2> QED
      BY <2>1, <2>2, <2>3 DEF RestType
  <1>6. ASSUME NEW t \in Tasks, Warm(t)
        PROVE  RestType'
    <2>1. UNCHANGED <<guard, event_cache, redis_events, sweep>>
      BY <1>6 DEF Warm, Initialize, WarmupCache, taskVars
    <2>2. is_warming' \in BOOLEAN
      BY <1>6, Zenon DEF RestType, Warm, Initialize, WarmupCache
    <2>3. todo' \in [Tasks -> SUBSET Accounts]
      BY <1>1, <1>6 DEF RestType, Warm, Initialize, WarmupCache
    <2> QED
      BY <2>1, <2>2, <2>3 DEF RestType
  <1>7. CASE (Cleanup \/ Tick) /\ UNCHANGED warmVars
    <2>1. UNCHANGED <<guard, event_cache, redis_events>>
      BY <1>7 DEF Cleanup, Tick, taskVars
    <2>2. sweep' \in 1 .. NumLocks
      BY <1>7 DEF RestType, Cleanup, Tick
    <2> QED
      BY <1>7, <2>1, <2>2 DEF RestType, warmVars
  <1> QED
    BY <1>1, <1>2, <1>3, <1>4, <1>5, <1>6, <1>7 DEF Next, Run

(* Every variable keeps its type.                                          *)
THEOREM TypeCorrect == Spec => [](TypeInv /\ RestType)
  <1>1. Inv => TypeInv
    BY DEF Inv
  <1> QED
    BY <1>1, InitInv, NextInv, InitRest, NextRest, PTL DEF Spec

-----------------------------------------------------------------------------
(* The stages a call still passes through, at most, from one that is       *)
(* neither the reading of a chunk nor the choice of an account of it.      *)
StagesLeft(stage) ==
    CASE stage = "idle" -> 0
      [] stage \in {"blocked", "dropping_events"} -> 1
      [] stage = "warming" -> 2
      [] stage = "warming_chunk" -> 3
      [] stage = "filling_events" -> 4
      [] stage \in {"inserting", "fetching_events", "deleting_events"} -> 5
      [] stage \in {"evicting", "deleting"} -> 6
      [] stage \in {"filling", "invalidating"} -> 7
      [] stage = "fetching" -> 8

(* What a warmup has read and not yet entered.                             *)
Found(t) == {a \in Accounts : loaded[t][a] # Absent}

(* A call gets nearer to its end: fewer accounts to read, or as many and   *)
(* fewer to enter, or as many of both and fewer stages to go.              *)
Nearer(t) ==
    \/ Cardinality(todo'[t]) < Cardinality(todo[t])
    \/ /\ todo'[t] = todo[t]
       /\ \/ Cardinality(Found(t)') < Cardinality(Found(t))
          \/ Found(t)' = Found(t) /\ StagesLeft(pc'[t]) < StagesLeft(pc[t])

Waits(t) == pc'[t] = pc[t] /\ todo'[t] = todo[t] /\ loaded'[t] = loaded[t]

LEMMA FiniteWork ==
    ASSUME RestType, NEW t \in Tasks
    PROVE  /\ IsFiniteSet(todo[t]) /\ Cardinality(todo[t]) \in Nat
           /\ IsFiniteSet(Found(t)) /\ Cardinality(Found(t)) \in Nat
  <1>1. todo[t] \subseteq Accounts /\ Found(t) \subseteq Accounts
    BY DEF RestType, Found
  <1> QED
    BY <1>1, FS_Subset, FS_CardinalityType, CacheServiceAssumption

(* A step of a call that is no step of a warmup.                           *)
LEMMA CallNearer ==
    ASSUME Inv, RestType, NEW t \in Tasks, ProceedCall(t), UNCHANGED warmVars
    PROVE  Nearer(t) /\ \A u \in Tasks \ {t} : Waits(u)
  <1>1. UNCHANGED <<todo, loaded>>
    BY DEF warmVars
  <1>2. ASSUME NEW s \in Stages, pc' = [pc EXCEPT ![t] = s],
               StagesLeft(s) < StagesLeft(pc[t])
        PROVE  Nearer(t) /\ \A u \in Tasks \ {t} : Waits(u)
    <2>1. Found(t)' = Found(t)
      BY <1>1 DEF Found, Absent
    <2>2. pc'[t] = s /\ \A u \in Tasks \ {t} : pc'[u] = pc[u]
      BY <1>2 DEF Inv, TypeInv
    <2> QED
      BY <1>1, <1>2, <2>1, <2>2 DEF Nearer, Waits
  <1>3. \/ /\ pc[t] \in {"fetching", "inserting", "deleting", "deleting_events",
                       "fetching_events", "filling_events", "dropping_events"}
           /\ Return(t)
        \/ pc[t] = "fetching" /\ Goto(t, "filling")
        \/ pc[t] = "filling" /\ (Goto(t, "evicting") \/ Goto(t, "inserting"))
        \/ pc[t] = "evicting" /\ (Goto(t, "inserting") \/ Goto(t, "blocked"))
        \/ pc[t] = "invalidating" /\ Goto(t, "deleting")
        \/ pc[t] = "deleting" /\ Goto(t, "deleting_events")
        \/ pc[t] = "fetching_events" /\ Goto(t, "filling_events")
    BY ZenonT(30) DEF ProceedCall, FetchAccount, CheckSize, EvictEntries, Insert, InvalidateShard,
           InvalidateRedis, InvalidateEvents, FetchEvents, InsertEvents, DropEvents
  <1>4. CASE Return(t) /\ pc[t] \in {"fetching", "inserting", "deleting", "deleting_events",
                                    "fetching_events", "filling_events", "dropping_events"}
    BY <1>2, <1>4 DEF Return, Enter, Goto, Stages, StagesLeft
  <1> QED
    BY <1>2, <1>3, <1>4 DEF Goto, Stages, StagesLeft

(* A step of a warmup.                                                     *)
LEMMA WarmupNearer ==
    ASSUME Inv, RestType, NEW t \in Tasks, ProceedWarmup(t), UNCHANGED config
    PROVE  Nearer(t) /\ \A u \in Tasks \ {t} : Waits(u)
  <1> USE DEF Goto
  <1>1. \A u \in Tasks \ {t} : Waits(u)
    <2>1. \A u \in Tasks \ {t} : pc'[u] = pc[u]
      BY DEF ProceedWarmup, WarmupFetch, WarmupNext, WarmupEnd, Enter, Inv, TypeInv
    <2>2. \A u \in Tasks \ {t} : todo'[u] = todo[u]
      BY DEF ProceedWarmup, WarmupFetch, WarmupNext, WarmupEnd, RestType
    <2>3. \A u \in Tasks \ {t} : loaded'[u] = loaded[u]
      BY DEF ProceedWarmup, WarmupFetch, WarmupNext, WarmupEnd, Inv, TypeInv
    <2> QED
      BY <2>1, <2>2, <2>3 DEF Waits
  <1> SUFFICES Nearer(t)
    BY <1>1
  <1>2. ASSUME todo'[t] \subseteq todo[t], todo'[t] # todo[t]
        PROVE  Nearer(t)
    <2>1. Cardinality(todo'[t]) < Cardinality(todo[t])
      BY <1>2, FiniteWork, FS_Subset, FS_CardinalityType
    <2> QED
      BY <2>1 DEF Nearer
  <1>3. CASE WarmupFetch(t)
    <2>1. CASE todo' = [todo EXCEPT ![t] = {}]
      BY <1>2, <1>3, <2>1 DEF WarmupFetch, RestType
    <2>2. CASE todo' # [todo EXCEPT ![t] = {}]
      <3>1. PICK chunk \in SUBSET todo[t] :
               /\ \/ Cardinality(chunk) = warmup_batch_size
                  \/ chunk = todo[t] /\ Cardinality(chunk) < warmup_batch_size
               /\ todo' = [todo EXCEPT ![t] = @ \ chunk]
        BY <1>3, <2>2 DEF WarmupFetch
      <3>2. chunk # {}
        <4>1. warmup_batch_size # 0
          BY CacheServiceAssumption DEF ConfigsAssumption, warmup_batch_size, Inv, TypeInv
        <4> QED
          BY <1>3, <3>1, <4>1, FS_EmptySet DEF WarmupFetch
      <3>3. todo'[t] = todo[t] \ chunk
        BY <3>1 DEF RestType
      <3> QED
        BY <1>2, <3>2, <3>3
    <2> QED
      BY <2>1, <2>2
  <1>4. CASE WarmupNext(t)
    <2>1. UNCHANGED todo
      BY <1>4 DEF WarmupNext
    <2>2. ASSUME NEW a \in Found(t), loaded' = [loaded EXCEPT ![t][a] = Absent]
          PROVE  Nearer(t)
      <3>1. Found(t)' = Found(t) \ {a}
        BY <2>2 DEF Found, Inv, TypeInv, Absent
      <3>2. Cardinality(Found(t) \ {a}) < Cardinality(Found(t))
        <4>1. Cardinality(Found(t) \ {a}) = Cardinality(Found(t)) - 1
          BY FiniteWork, FS_RemoveElement, Zenon
        <4> QED
          BY <4>1, FiniteWork
      <3> QED
        BY <2>1, <3>1, <3>2 DEF Nearer
    <2>3. CASE Found(t) = {} /\ pc' = [pc EXCEPT ![t] = "warming"] /\ UNCHANGED loaded
      <3>1. Found(t)' = Found(t)
        BY <2>3 DEF Found, Absent
      <3>2. StagesLeft(pc'[t]) < StagesLeft(pc[t])
        BY <1>4, <2>3 DEF WarmupNext, StagesLeft, Inv, TypeInv
      <3> QED
        BY <2>1, <3>1, <3>2 DEF Nearer
    <2> QED
      BY <1>4, <2>2, <2>3 DEF WarmupNext, Found
  <1>5. CASE WarmupEnd(t)
    <2>1. UNCHANGED <<todo, loaded>>
      BY <1>5 DEF WarmupEnd
    <2>2. Found(t)' = Found(t)
      BY <2>1 DEF Found, Absent
    <2>3. StagesLeft(pc'[t]) < StagesLeft(pc[t])
      BY <1>5 DEF WarmupEnd, StagesLeft, Inv, TypeInv
    <2> QED
      BY <2>1, <2>2, <2>3 DEF Nearer
  <1> QED
    BY <1>3, <1>4, <1>5 DEF ProceedWarmup

(* Each step of a call brings it nearer to its end, and no step of another *)
(* call, of the cleanup task or of the clock takes it back.                *)
CallsComeNearer ==
    \A t \in Tasks :
        /\ Run(t) => Nearer(t)
        /\ pc[t] # "idle" => Nearer(t) \/ Waits(t)

(* A call that has begun ends after as many steps of its own as its        *)
(* warmup's accounts and its stages allow, or stops for good at a lock: no *)
(* interleaving makes it go round in circles.                              *)
THEOREM CallsAreFinite == Spec => [][CallsComeNearer]_vars
  <1>1. Inv /\ RestType /\ [Next]_vars => [CallsComeNearer]_vars
    <2> SUFFICES ASSUME Inv, RestType, Next, NEW t \in Tasks
                 PROVE  /\ Run(t) => Nearer(t)
                        /\ pc[t] # "idle" => Nearer(t) \/ Waits(t)
      BY DEF CallsComeNearer
    <2>1. ASSUME NEW u \in Tasks, Run(u)
          PROVE  Nearer(u) /\ \A v \in Tasks \ {u} : Waits(v)
      BY <2>1, CallNearer, WarmupNearer DEF Run
    <2>2. ASSUME NEW u \in Tasks, Warm(u), pc[t] # "idle"
          PROVE  Waits(t)
      <3>1. /\ pc[u] = "idle" /\ UNCHANGED loaded
            /\ UNCHANGED pc \/ pc' = [pc EXCEPT ![u] = "warming"]
            /\ UNCHANGED todo \/ \E ids : todo' = [todo EXCEPT ![u] = ids]
        BY <2>2 DEF Warm, Initialize, WarmupCache, MayCall, Goto, taskVars
      <3> QED
        BY <2>2, <3>1 DEF Waits, Inv, TypeInv, RestType
    <2>3. ASSUME NEW u \in Tasks, NEW a \in config.accounts, Call(u, a), UNCHANGED warmVars,
                 pc[t] # "idle"
          PROVE  Waits(t)
      <3>1. pc[u] = "idle" /\ (UNCHANGED pc \/ \E s : pc' = [pc EXCEPT ![u] = s])
        BY <2>3 DEF Call, GetAccount, SetAccount, DeleteAccount, InvalidateAccount,
               GetAccountEvents, SetAccountEvents, DeleteAccountEvents, DeleteEvents, MayCall,
               Enter, Goto
      <3> QED
        BY <2>3, <3>1 DEF Waits, warmVars, Inv, TypeInv
    <2>4. ASSUME Cleanup \/ Tick, UNCHANGED warmVars
          PROVE  Waits(t)
      BY <2>4 DEF Cleanup, Tick, taskVars, warmVars, Waits
    <2>5. Run(t) => Nearer(t)
      BY <2>1
    <2>6. pc[t] # "idle" => Nearer(t) \/ Waits(t)
      BY <2>1, <2>2, <2>3, <2>4 DEF Next
    <2> QED
      BY <2>5, <2>6
  <1> QED
    BY <1>1, InitInv, NextInv, InitRest, NextRest, PTL DEF Spec
=============================================================================
