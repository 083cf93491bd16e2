---------------------------- MODULE ShardManager ----------------------------
(***************************************************************************)
(* ShardManager and its LockManager (src/src/infrastructure/sharding.rs).  *)
(* initialize_shards divides the hashes 0 .. MaxHash (u64::MAX) among the  *)
(* shards and inserts these one by one, while get_shard_for_key may        *)
(* already be walking the map.  Tasks assign shards and rebalance them     *)
(* under locks that live in Redis and expire.  The expiry of a lock is a   *)
(* step of its own that may come at any time, since nothing bounds how     *)
(* long a task keeps a lock.                                               *)
(***************************************************************************)
EXTENDS Integers, Sequences, FiniteSets, FiniteSetsExt, SequencesExt

CONSTANTS
    MaxHash,            \* u64::MAX
    shard_count,        \* ShardConfig.shard_count
    Threshold,          \* ShardConfig.rebalance_threshold, in percent
    Instances,
    Missing,            \* a shard that is not in the map
    Unassigned,         \* instance_id is None
    Starts,             \* what the map may hold at the start
    Assignments,        \* the (shard, instance) pairs assign_shard is called with
    Tasks, None,        \* concurrent calls that take locks; no task
    Lookups,            \* concurrent calls of get_shard_for_key
    MaxFaults           \* bound: Redis commands that fail

Shards == 0 .. shard_count - 1

(* u64::MAX / 0 would panic; usize is no wider than u64.                   *)
ASSUME ShardManagerAssumption ==
    /\ MaxHash \in Nat
    /\ shard_count \in Nat \ {0}
    /\ shard_count =< MaxHash
    /\ Threshold \in 0 .. 100
    /\ IsFiniteSet(Instances)
    /\ Missing \notin Instances /\ Unassigned \notin Instances /\ Missing # Unassigned
    /\ Starts \subseteq [Shards -> Instances \cup {Missing, Unassigned}]
    /\ Assignments \subseteq Shards \X Instances
    /\ None \notin Tasks
    /\ MaxFaults \in Nat

VARIABLES
    shards,     \* instance_id of every shard in the map
    hash,       \* the hash a lookup is for
    seen,       \* the shards its walk has passed
    found,      \* the shard it found, or NotFound
    lock,       \* Redis: the task whose id is stored under the key, or None
    held,       \* the DistributedLock values a task has in hand, by key
    lost,       \* those of them that have expired
    pc, op,     \* what the task does next, and for which call
    retries,    \* of acquire_lock
    moves,      \* the (shard, instance) pairs still to be assigned
    faults      \* Redis commands that have failed

walkVars == <<hash, seen, found>>
taskVars == <<lock, held, lost, pc, op, retries, moves, faults>>
vars == <<shards, walkVars, taskVars>>

NotFound == -1

(* The key of the rebalance lock, beside those of the shards.              *)
Rebalance == -1

Keys == Shards \cup {Rebalance}

(* The lock the task acquires or releases now.                             *)
Key(t) == IF pc[t] \in {"lockAll", "unlockAll"} THEN Rebalance ELSE Head(moves[t])[1]

Init ==
    /\ shards \in Starts
    /\ hash \in [Lookups -> 0 .. MaxHash]
    /\ seen = [l \in Lookups |-> {}]
    /\ found = [l \in Lookups |-> NotFound]
    /\ lock = [k \in Keys |-> None]
    /\ held = [t \in Tasks |-> {}]
    /\ lost = [t \in Tasks |-> {}]
    /\ pc = [t \in Tasks |-> "idle"]
    /\ op = [t \in Tasks |-> "none"]
    /\ retries = [t \in Tasks |-> 0]
    /\ moves = [t \in Tasks |-> <<>>]
    /\ faults = 0

(***************************************************************************)
(* The ranges, and the walks over them                                     *)
(***************************************************************************)
range_size == MaxHash \div shard_count

(* Mutant: the last range ends like the others.                            *)
RangeEndUniform(i) == (i + 1) * range_size - 1

RangeStart(i) == i * range_size

RangeEnd(i) == IF i = shard_count - 1 THEN MaxHash ELSE (i + 1) * range_size - 1

InRange(h, i) == h >= RangeStart(i) /\ h =< RangeEnd(i)

(* The shards in the map.                                                  *)
Present == {i \in Shards : shards[i] # Missing}

(* The next insert of initialize_shards, in the order of the shards.       *)
InitializeShards ==
    /\ \E i \in Shards \ Present :
          /\ \A j \in Shards : j < i => j \in Present
          /\ shards' = [shards EXCEPT ![i] = Unassigned]
    /\ UNCHANGED <<walkVars, taskVars>>

(* get_shard_for_key: the next entry of the walk, in no particular order.  *)
GetShardForKey(l) ==
    /\ found[l] = NotFound
    /\ \E i \in Present \ seen[l] :
          /\ seen' = [seen EXCEPT ![l] = @ \cup {i}]
          /\ found' = [found EXCEPT ![l] = IF InRange(hash[l], i) THEN i ELSE @]
    /\ UNCHANGED <<shards, hash, taskVars>>

(* The walk is over, and the caller asks for another key.                  *)
NextLookup(l) ==
    /\ found[l] # NotFound \/ Present \subseteq seen[l]
    /\ \E h \in 0 .. MaxHash : hash' = [hash EXCEPT ![l] = h]
    /\ seen' = [seen EXCEPT ![l] = {}]
    /\ found' = [found EXCEPT ![l] = NotFound]
    /\ UNCHANGED <<shards, taskVars>>

(***************************************************************************)
(* The calls that take locks                                               *)
(***************************************************************************)
(* A Redis command fails.                                                  *)
Fault == faults < MaxFaults /\ faults' = faults + 1

(* A call that is over drops the locks it has; DistributedLock has no      *)
(* destructor.                                                             *)
Return(t) ==
    /\ pc' = [pc EXCEPT ![t] = "idle"]
    /\ op' = [op EXCEPT ![t] = "none"]
    /\ retries' = [retries EXCEPT ![t] = 0]
    /\ moves' = [moves EXCEPT ![t] = <<>>]
    /\ held' = [held EXCEPT ![t] = {}]
    /\ lost' = [lost EXCEPT ![t] = {}]

AssignShard(t) ==
    /\ pc[t] = "idle"
    /\ \E assignment \in Assignments : moves' = [moves EXCEPT ![t] = <<assignment>>]
    /\ op' = [op EXCEPT ![t] = "assign"]
    /\ pc' = [pc EXCEPT ![t] = "lock"]
    /\ UNCHANGED <<shards, walkVars, lock, held, lost, retries, faults>>

RebalanceShards(t) ==
    /\ pc[t] = "idle"
    /\ op' = [op EXCEPT ![t] = "rebalance"]
    /\ pc' = [pc EXCEPT ![t] = "lockAll"]
    /\ UNCHANGED <<shards, walkVars, lock, held, lost, retries, moves, faults>>

(* Mutant: the tries are not counted.                                      *)
TryLockForever(t) ==
    LET k == Key(t) IN
    /\ pc[t] \in {"lockAll", "lock"}
    /\ lock[k] = None
    /\ lock' = [lock EXCEPT ![k] = t]
    /\ held' = [held EXCEPT ![t] = @ \cup {k}]
    /\ pc' = [pc EXCEPT ![t] = IF k = Rebalance THEN "plan" ELSE "move"]
    /\ UNCHANGED <<shards, walkVars, lost, op, retries, moves, faults>>

(* Mutant: after the last try the caller goes on without the lock.         *)
TryLockGoesOn(t) ==
    LET k == Key(t) IN
    /\ pc[t] \in {"lockAll", "lock"}
    /\ IF lock[k] = None
         THEN /\ lock' = [lock EXCEPT ![k] = t]
              /\ held' = [held EXCEPT ![t] = @ \cup {k}]
         ELSE UNCHANGED <<lock, held>>
    /\ pc' = [pc EXCEPT ![t] = IF k = Rebalance THEN "plan" ELSE "move"]
    /\ UNCHANGED <<shards, walkVars, lost, op, retries, moves, faults>>

(* acquire_lock: SET NX PX; three tries, 100 ms apart.  A failed command   *)
(* may still have set the key.                                             *)
TryLock(t) ==
    LET k == Key(t) IN
    /\ pc[t] \in {"lockAll", "lock"}
    /\ \/ /\ lock[k] = None
          /\ lock' = [lock EXCEPT ![k] = t]
          /\ held' = [held EXCEPT ![t] = @ \cup {k}]
          /\ pc' = [pc EXCEPT ![t] = IF k = Rebalance THEN "plan" ELSE "move"]
          /\ retries' = [retries EXCEPT ![t] = 0]
          /\ UNCHANGED <<lost, op, moves, faults>>
       \/ /\ lock[k] # None /\ retries[t] < 2
          /\ retries' = [retries EXCEPT ![t] = @ + 1]
          /\ UNCHANGED <<lock, held, lost, pc, op, moves, faults>>
       \/ lock[k] # None /\ retries[t] = 2 /\ Return(t) /\ UNCHANGED <<lock, faults>>
       \/ /\ Fault /\ Return(t)
          /\ lock' \in {lock, IF lock[k] = None THEN [lock EXCEPT ![k] = t] ELSE lock}
    /\ UNCHANGED <<shards, walkVars>>

-----------------------------------------------------------------------------
Load(i) == Cardinality({s \in Present : shards[s] = i})

(* rebalance_shards counts only the instances that have a shard.           *)
Counted == {i \in Instances : Load(i) > 0}

(* avg_shards = |Shards| / |Counted|; deviations in percent of it.         *)
Deviates(i) ==
    LET d == Load(i) * Cardinality(Counted) - Cardinality(Present)
    IN  100 * (IF d < 0 THEN -d ELSE d) > Threshold * Cardinality(Present)

Overloaded ==
    {i \in Counted :
        100 * Load(i) * Cardinality(Counted) > (100 + Threshold) * Cardinality(Present)}

Underloaded ==
    {i \in Counted :
        100 * Load(i) * Cardinality(Counted) < (100 - Threshold) * Cardinality(Present)}

(* perform_rebalancing: the first shard of every overloaded instance goes  *)
(* to every underloaded one in turn.  The orders are those of a DashMap.   *)
Nested(first, from, to) ==
    [n \in 1 .. Len(from) * Len(to) |->
        <<first[from[((n - 1) \div Len(to)) + 1]], to[((n - 1) % Len(to)) + 1]>>]

Plans ==
    IF \E i \in Counted : Deviates(i)
      THEN {Nested(first, from, to) :
              from \in SetToSeqs(Overloaded), to \in SetToSeqs(Underloaded),
              first \in {f \in [Overloaded -> Present] :
                           \A i \in Overloaded : shards[f[i]] = i}}
      ELSE {<<>>}

Plan(t) ==
    /\ pc[t] = "plan"
    /\ \E p \in Plans :
          /\ moves' = [moves EXCEPT ![t] = p]
          /\ pc' = [pc EXCEPT ![t] = IF p = <<>> THEN "unlockAll" ELSE "lock"]
    /\ UNCHANGED <<shards, walkVars, lock, held, lost, op, retries, faults>>

(* assign_shard, under what it takes to be the shard's lock; a shard that  *)
(* is not in the map stays out of it.                                      *)
Move(t) ==
    LET s == Head(moves[t])[1] IN
    /\ pc[t] = "move"
    /\ shards' = [shards EXCEPT ![s] = IF s \in Present THEN Head(moves[t])[2] ELSE @]
    /\ pc' = [pc EXCEPT ![t] = "unlock"]
    /\ UNCHANGED <<walkVars, lock, held, lost, op, retries, moves, faults>>

(* What follows the release of k.                                          *)
AfterUnlock(t, k) ==
    IF op[t] = "assign" \/ k = Rebalance
      THEN Return(t)
      ELSE /\ moves' = [moves EXCEPT ![t] = Tail(@)]
           /\ pc' = [pc EXCEPT ![t] = IF Len(moves[t]) = 1 THEN "unlockAll" ELSE "lock"]
           /\ held' = [held EXCEPT ![t] = @ \ {k}]
           /\ lost' = [lost EXCEPT ![t] = @ \ {k}]
           /\ UNCHANGED <<op, retries>>

(* Mutant: the key is deleted whoever owns it.                             *)
ReleaseLockOfAny(t) ==
    /\ pc[t] \in {"unlockAll", "unlock"}
    /\ lock' = [lock EXCEPT ![Key(t)] = None]
    /\ AfterUnlock(t, Key(t))
    /\ UNCHANGED <<shards, walkVars, faults>>

(* release_lock: the script deletes the key when it holds this lock's id.  *)
ReleaseLock(t) ==
    LET k == Key(t)
        released == [lock EXCEPT ![k] = IF @ = t /\ k \notin lost[t] THEN None ELSE @]
    IN  /\ pc[t] \in {"unlockAll", "unlock"}
        /\ \/ AfterUnlock(t, k) /\ lock' = released /\ UNCHANGED faults
           \/ Fault /\ Return(t) /\ lock' \in {lock, released}
        /\ UNCHANGED <<shards, walkVars>>

(* PX: Redis drops the key when its time is over.                          *)
Expire(k) ==
    /\ lock[k] # None
    /\ lock' = [lock EXCEPT ![k] = None]
    /\ lost' = [lost EXCEPT ![lock[k]] = @ \cup ({k} \cap held[lock[k]])]
    /\ UNCHANGED <<shards, walkVars, held, pc, op, retries, moves, faults>>

Call(t) == AssignShard(t) \/ RebalanceShards(t)

Step(t) == TryLock(t) \/ Plan(t) \/ Move(t) \/ ReleaseLock(t)

Next ==
    \/ InitializeShards
    \/ \E l \in Lookups : GetShardForKey(l) \/ NextLookup(l)
    \/ \E t \in Tasks : Call(t) \/ Step(t)
    \/ \E k \in Keys : Expire(k)

Spec == Init /\ [][Next]_vars

(* The runtime polls a task that can go on, and Redis answers.              *)
Fairness == \A t \in Tasks : WF_vars(Step(t))

FairSpec == Spec /\ Fairness

-----------------------------------------------------------------------------
(* Every variable keeps its type.                                          *)
TypeOK ==
    /\ shards \in [Shards -> Instances \cup {Missing, Unassigned}]
    /\ hash \in [Lookups -> 0 .. MaxHash]
    /\ seen \in [Lookups -> SUBSET Shards]
    /\ found \in [Lookups -> Shards \cup {NotFound}]
    /\ lock \in [Keys -> Tasks \cup {None}]
    /\ held \in [Tasks -> SUBSET Keys]
    /\ lost \in [Tasks -> SUBSET Keys]
    /\ pc \in [Tasks -> {"idle", "lockAll", "plan", "lock", "move", "unlock", "unlockAll"}]
    /\ op \in [Tasks -> {"none", "assign", "rebalance"}]
    /\ retries \in [Tasks -> 0 .. 2]
    /\ moves \in [Tasks -> Seq(Shards \X Instances)]
    /\ faults \in 0 .. MaxFaults

(* Two walks that look for the same hash agree, in whatever order and over *)
(* however many shards they went, and a walk over all the shards finds     *)
(* one: no hash is in two ranges, and the ranges leave no hash out, not    *)
(* the remainder of the division and not the largest hash.                 *)
LookupsAreExact ==
    /\ \A l, m \in Lookups :
          hash[l] = hash[m] /\ found[l] # NotFound /\ found[m] # NotFound =>
              found[l] = found[m]
    /\ \A l \in Lookups : seen[l] = Shards => found[l] # NotFound

(* A lock that has not expired belongs to the task that acquired it: a     *)
(* task whose lock expired, and was taken by another, releases late and    *)
(* does not release the other's.  So two tasks never hold a lock that has  *)
(* expired for neither.                                                    *)
UnexpiredIsOwned ==
    \A t \in Tasks : \A k \in held[t] \ lost[t] : lock[k] = t

(* A shard is assigned by a task that acquired its lock, and a rebalance   *)
(* plans and moves with the rebalance lock acquired as well.               *)
MovesUnderLock ==
    \A t \in Tasks :
        /\ pc[t] \in {"move", "unlock"} => Key(t) \in held[t]
        /\ op[t] = "rebalance" /\ pc[t] \notin {"idle", "lockAll"} => Rebalance \in held[t]

(* Every call returns: acquire_lock gives up after three tries, also where *)
(* a rebalance waits for a shard lock with the rebalance lock in hand.     *)
EveryCallReturns == \A t \in Tasks : pc[t] # "idle" ~> pc[t] = "idle"
=============================================================================
