------------------------- MODULE ShardManagerProofs -------------------------
(***************************************************************************)
(* The ranges of initialize_shards divide the hashes among the shards, so  *)
(* that lookups are exact, and the locks that expire still protect what    *)
(* they are taken for: for every number of shards, instances and tasks.    *)
(* The calls that take them cannot go on for ever.                         *)
(***************************************************************************)
EXTENDS ShardManager, FiniteSetTheorems, SequenceTheorems, TLAPS

(* Multiplication by a natural number keeps the order.                     *)
LEMMA TimesMonotone ==
    ASSUME NEW a \in Nat, NEW b \in Nat, NEW c \in Nat, a =< b
    PROVE  a * c =< b * c
<1>1. PICK d \in Nat : b = a + d
  <2>1. b - a \in Nat /\ b = a + (b - a)
    OBVIOUS
  <2>2. QED
    BY <2>1
<1>2. b * c = a * c + d * c
  BY <1>1
<1>3. d * c \in Nat /\ a * c \in Nat
  BY <1>1
<1>4. QED
  BY <1>2, <1>3

(* range_size is a natural number, and the ranges end within the hashes.   *)
LEMMA RangeSize == range_size \in Nat
BY ShardManagerAssumption DEF range_size

(* No hash lies in the ranges of two shards.                               *)
LEMMA RangesAreDisjoint ==
    ASSUME NEW h \in Nat, NEW i \in Shards, NEW j \in Shards,
           i < j, InRange(h, i)
    PROVE  ~InRange(h, j)
<1>1. i # shard_count - 1 /\ i \in Nat /\ j \in Nat /\ i + 1 =< j
  BY ShardManagerAssumption DEF Shards
<1>2. h =< (i + 1) * range_size - 1
  BY <1>1 DEF InRange, RangeEnd
<1>3. (i + 1) * range_size =< j * range_size
  BY <1>1, RangeSize, TimesMonotone
<1>4. (i + 1) * range_size \in Nat /\ j * range_size \in Nat
  BY <1>1, RangeSize
<1>5. h < j * range_size
  BY <1>2, <1>3, <1>4
<1>6. QED
  BY <1>4, <1>5 DEF InRange, RangeStart

(* Every hash lies in the range of some shard.                             *)
LEMMA RangesCover ==
    ASSUME NEW h \in 0 .. MaxHash
    PROVE  \E i \in Shards : InRange(h, i)
<1>1. CASE h >= (shard_count - 1) * range_size
  <2>1. InRange(h, shard_count - 1)
    BY <1>1, ShardManagerAssumption DEF InRange, RangeStart, RangeEnd
  <2>2. QED
    BY <2>1, ShardManagerAssumption DEF Shards
<1>2. CASE h < (shard_count - 1) * range_size
  <2>0. h \in Nat /\ shard_count - 1 \in Nat /\ range_size \in Nat
    BY ShardManagerAssumption, RangeSize
  <2>1. range_size > 0
    BY <1>2, <2>0
  <2> DEFINE i == h \div range_size
  <2>2. i \in Nat /\ i * range_size =< h /\ h < (i + 1) * range_size
    BY <2>0, <2>1
  <2>3. i < shard_count - 1
    <3>1. SUFFICES ASSUME shard_count - 1 =< i PROVE FALSE
      BY <2>0, <2>2
    <3>2. (shard_count - 1) * range_size =< i * range_size
      BY <3>1, <2>0, <2>2, TimesMonotone
    <3>3. QED
      BY <3>2, <1>2, <2>0, <2>2
  <2>4. InRange(h, i)
    BY <2>0, <2>2, <2>3 DEF InRange, RangeStart, RangeEnd
  <2>5. QED
    BY <2>0, <2>2, <2>3, <2>4 DEF Shards
<1>3. QED
  BY <1>1, <1>2, RangeSize, ShardManagerAssumption

-----------------------------------------------------------------------------
(* The pairs that a rebalance goes through are shards and instances.       *)
LEMMA NestedType ==
    ASSUME NEW S, NEW T, NEW U,
           NEW F \in Nat, NEW G \in Nat,
           NEW first \in [S -> U], NEW from \in [1 .. F -> S], NEW to \in [1 .. G -> T]
    PROVE  Nested(first, from, to) \in Seq(U \X T)
<1>1. Len(from) = F /\ Len(to) = G
  OBVIOUS
<1>2. F * G \in Nat
  OBVIOUS
<1>3. ASSUME NEW n \in 1 .. F * G
      PROVE  /\ ((n - 1) \div G) + 1 \in 1 .. F
             /\ ((n - 1) % G) + 1 \in 1 .. G
  <2>1. G > 0
    BY <1>3
  <2> DEFINE q == (n - 1) \div G
  <2>2. n - 1 \in Nat /\ n - 1 < F * G
    BY <1>2
  <2>3. q \in Nat /\ q * G =< n - 1
    BY <2>1, <2>2
  <2>4. (n - 1) % G \in 0 .. G - 1
    BY <2>1, <2>2
  <2> HIDE DEF q
  <2>5. q < F
    <3>1. SUFFICES ASSUME F =< q PROVE FALSE
      BY <2>3
    <3>2. F * G =< q * G
      BY <3>1, <2>3, TimesMonotone
    <3>3. q * G \in Nat
      BY <2>3
    <3>4. QED
      BY <3>2, <3>3, <2>2, <2>3, <1>2
  <2>6. q + 1 \in 1 .. F
    BY <2>3, <2>5
  <2>7. ((n - 1) % G) + 1 \in 1 .. G
    BY <2>4
  <2>8. QED
    BY <2>6, <2>7 DEF q
<1>4. Nested(first, from, to) = [n \in 1 .. F * G |->
          <<first[from[((n - 1) \div G) + 1]], to[((n - 1) % G) + 1]>>]
  BY <1>1 DEF Nested
<1>5. \A n \in 1 .. F * G :
          <<first[from[((n - 1) \div G) + 1]], to[((n - 1) % G) + 1]>> \in U \X T
  <2> SUFFICES ASSUME NEW n \in 1 .. F * G
               PROVE  <<first[from[((n - 1) \div G) + 1]], to[((n - 1) % G) + 1]>> \in U \X T
    OBVIOUS
  <2> DEFINE i == ((n - 1) \div G) + 1
             j == ((n - 1) % G) + 1
  <2>1. i \in 1 .. F /\ j \in 1 .. G
    BY <1>3
  <2> HIDE DEF i, j
  <2>2. first[from[i]] \in U /\ to[j] \in T
    BY <2>1
  <2>3. QED
    BY <2>2 DEF i, j
<1> DEFINE p == [n \in 1 .. F * G |->
          <<first[from[((n - 1) \div G) + 1]], to[((n - 1) % G) + 1]>>]
<1>6. p \in [1 .. F * G -> U \X T]
  BY <1>5, ZenonT(30)
<1> HIDE DEF p
<1>7. p \in Seq(U \X T)
  BY <1>6, <1>2
<1>8. QED
  BY <1>4, <1>7, ZenonT(30) DEF p

(* Every plan is a sequence of assignments.                                *)
LEMMA PlansType == Plans \subseteq Seq(Shards \X Instances)
<1> SUFFICES ASSUME NEW p \in Plans
             PROVE  p \in Seq(Shards \X Instances)
  OBVIOUS
<1>1. CASE p = <<>>
  BY <1>1
<1>2. CASE p # <<>>
  <2>1. PICK from \in SetToSeqs(Overloaded), to \in SetToSeqs(Underloaded),
             first \in [Overloaded -> Present] : p = Nested(first, from, to)
    BY <1>2 DEF Plans
  <2>2. IsFiniteSet(Overloaded) /\ IsFiniteSet(Underloaded)
    <3>1. Overloaded \in SUBSET Instances /\ Underloaded \in SUBSET Instances
      BY DEF Overloaded, Underloaded, Counted
    <3>2. IsFiniteSet(Instances)
      BY ShardManagerAssumption
    <3>3. QED
      BY <3>1, <3>2, FS_Subset
  <2>3. Cardinality(Overloaded) \in Nat /\ Cardinality(Underloaded) \in Nat
    BY <2>2, FS_CardinalityType
  <2>4. /\ from \in [1 .. Cardinality(Overloaded) -> Overloaded]
        /\ to \in [1 .. Cardinality(Underloaded) -> Underloaded]
    BY <2>1 DEF SetToSeqs
  <2>5. p \in Seq(Present \X Underloaded)
    BY <2>1, <2>3, <2>4, NestedType, ZenonT(30)
  <2>6. Present \subseteq Shards /\ Underloaded \subseteq Instances
    BY DEF Present, Underloaded, Counted
  <2>7. Present \X Underloaded \subseteq Shards \X Instances
    BY <2>6
  <2>8. QED
    BY <2>5, <2>7
<1>3. QED
  BY <1>1, <1>2

-----------------------------------------------------------------------------
(* A call that acquires, moves or releases has an assignment to carry out. *)
Carries == \A t \in Tasks : pc[t] \in {"lock", "move", "unlock"} => moves[t] # <<>>

(* What a walk has found contains its hash; what it passed does not.       *)
WalkInv ==
    \A l \in Lookups :
        /\ found[l] # NotFound => InRange(hash[l], found[l])
        /\ found[l] = NotFound => \A i \in seen[l] : ~InRange(hash[l], i)

(* The inductive invariant.                                                *)
IInv == TypeOK /\ Carries /\ WalkInv /\ UnexpiredIsOwned /\ MovesUnderLock

(* The key in hand is a shard, or the rebalance lock.                      *)
LEMMA KeyType ==
    ASSUME TypeOK, Carries, NEW t \in Tasks, pc[t] \in {"lockAll", "lock", "move", "unlock", "unlockAll"}
    PROVE  /\ Key(t) \in Keys
           /\ Key(t) = Rebalance <=> pc[t] \in {"lockAll", "unlockAll"}
           /\ pc[t] \notin {"lockAll", "unlockAll"} =>
                 moves[t] # <<>> /\ Head(moves[t]) \in Shards \X Instances
<1>1. CASE pc[t] \in {"lockAll", "unlockAll"}
  BY <1>1 DEF Key, Keys
<1>2. CASE pc[t] \in {"lock", "move", "unlock"}
  <2>1. moves[t] \in Seq(Shards \X Instances) /\ moves[t] # <<>>
    BY <1>2 DEF TypeOK, Carries
  <2>2. Head(moves[t]) \in Shards \X Instances
    BY <2>1
  <2>3. Head(moves[t])[1] \in Shards
    BY <2>2
  <2>4. Rebalance \notin Shards
    BY ShardManagerAssumption DEF Rebalance, Shards
  <2>5. QED
    BY <1>2, <2>1, <2>2, <2>3, <2>4 DEF Key, Keys
<1>3. QED
  BY <1>1, <1>2

(* Return leaves a task with nothing in hand.                              *)
LEMMA ReturnInv ==
    ASSUME IInv, NEW t \in Tasks, Return(t),
           lock' \in [Keys -> Tasks \cup {None}],
           \A k \in Keys, u \in Tasks \ {t} : lock[k] = u => lock'[k] = u,
           faults' \in 0 .. MaxFaults,
           UNCHANGED <<shards, walkVars>>
    PROVE  IInv'
<1>1. TypeOK'
  BY DEF IInv, TypeOK, Return, walkVars
<1>2. Carries'
  BY DEF IInv, TypeOK, Carries, Return
<1>3. WalkInv'
  BY DEF IInv, WalkInv, walkVars, InRange, RangeStart, RangeEnd, range_size, NotFound
<1>4. UnexpiredIsOwned'
  <2> SUFFICES ASSUME NEW u \in Tasks, NEW k \in held'[u] \ lost'[u]
               PROVE  lock'[k] = u
    BY DEF UnexpiredIsOwned
  <2>1. u # t
    BY DEF IInv, TypeOK, Return
  <2>2. k \in held[u] \ lost[u] /\ k \in Keys
    BY <2>1 DEF IInv, TypeOK, Return
  <2>3. QED
    BY <2>1, <2>2 DEF IInv, UnexpiredIsOwned
<1>5. MovesUnderLock'
  <2> SUFFICES ASSUME NEW u \in Tasks
               PROVE  /\ pc'[u] \in {"move", "unlock"} => Key(u)' \in held'[u]
                      /\ op'[u] = "rebalance" /\ pc'[u] \notin {"idle", "lockAll"} => Rebalance \in held'[u]
    BY DEF MovesUnderLock, Rebalance
  <2>1. CASE u = t
    BY <2>1 DEF IInv, TypeOK, Return
  <2>2. CASE u # t
    BY <2>2 DEF IInv, TypeOK, Return, MovesUnderLock, Key
  <2>3. QED
    BY <2>1, <2>2
<1>6. QED
  BY <1>1, <1>2, <1>3, <1>4, <1>5 DEF IInv

(* Walks and what they found are out of the tasks' reach.                  *)
LEMMA WalkFrame == WalkInv /\ UNCHANGED walkVars => WalkInv'
BY DEF WalkInv, walkVars, InRange, RangeStart, RangeEnd, range_size, NotFound

(* A step of task t that leaves the locks alone, or sets a free one to t,  *)
(* and keeps what t has in hand.                                           *)
LEMMA TaskStepInv ==
    ASSUME IInv, NEW t \in Tasks, TypeOK', Carries', UNCHANGED walkVars,
           \A u \in Tasks \ {t} : /\ held'[u] = held[u] /\ lost'[u] = lost[u]
                                  /\ pc'[u] = pc[u] /\ op'[u] = op[u] /\ moves'[u] = moves[u],
           \A u \in Tasks \ {t} : \A k \in Keys : lock[k] = u => lock'[k] = u,
           \A k \in held'[t] \ lost'[t] : lock'[k] = t,
           pc'[t] \in {"move", "unlock"} => Key(t)' \in held'[t],
           op'[t] = "rebalance" /\ pc'[t] \notin {"idle", "lockAll"} => Rebalance \in held'[t]
    PROVE  IInv'
<1>1. UnexpiredIsOwned'
  <2> SUFFICES ASSUME NEW u \in Tasks, NEW k \in held'[u] \ lost'[u]
               PROVE  lock'[k] = u
    BY DEF UnexpiredIsOwned
  <2>1. CASE u = t
    BY <2>1
  <2>2. CASE u # t
    <3>1. k \in held[u] \ lost[u] /\ k \in Keys
      BY <2>2 DEF IInv, TypeOK
    <3>2. QED
      BY <2>2, <3>1 DEF IInv, UnexpiredIsOwned
  <2>3. QED
    BY <2>1, <2>2
<1>2. MovesUnderLock'
  <2> SUFFICES ASSUME NEW u \in Tasks
               PROVE  /\ pc'[u] \in {"move", "unlock"} => Key(u)' \in held'[u]
                      /\ op'[u] = "rebalance" /\ pc'[u] \notin {"idle", "lockAll"} => Rebalance \in held'[u]
    BY DEF MovesUnderLock, Rebalance
  <2>1. CASE u = t
    BY <2>1
  <2>2. CASE u # t
    BY <2>2 DEF IInv, MovesUnderLock, Key
  <2>3. QED
    BY <2>1, <2>2
<1>3. WalkInv'
  BY WalkFrame DEF IInv
<1>4. QED
  BY <1>1, <1>2, <1>3 DEF IInv

LEMMA CallInv == ASSUME IInv, NEW t \in Tasks, Call(t) PROVE IInv'
<1>0. TypeOK /\ Carries /\ UnexpiredIsOwned /\ MovesUnderLock
  BY DEF IInv
<1>1. CASE AssignShard(t)
  <2>1. PICK assignment \in Assignments : moves' = [moves EXCEPT ![t] = <<assignment>>]
    BY <1>1, ZenonT(30) DEF AssignShard
  <2>2. assignment \in Shards \X Instances
    BY ShardManagerAssumption
  <2>3. <<assignment>> \in Seq(Shards \X Instances) /\ <<assignment>> # <<>>
    BY <2>2
  <2>4. TypeOK'
    BY <1>0, <1>1, <2>1, <2>3 DEF AssignShard, TypeOK, walkVars
  <2>5. Carries'
    BY <1>0, <1>1, <2>1, <2>3 DEF AssignShard, TypeOK, Carries
  <2>6. \A k \in held'[t] \ lost'[t] : lock'[k] = t
    BY <1>0, <1>1 DEF AssignShard, UnexpiredIsOwned
  <2>7. pc'[t] = "lock" /\ op'[t] = "assign"
    BY <1>0, <1>1 DEF AssignShard, TypeOK
  <2>8. QED
    BY <1>0, <1>1, <2>1, <2>4, <2>5, <2>6, <2>7, TaskStepInv, ZenonT(30)
       DEF AssignShard, TypeOK
<1>2. CASE RebalanceShards(t)
  <2>1. TypeOK'
    BY <1>0, <1>2 DEF RebalanceShards, TypeOK, walkVars
  <2>2. Carries'
    BY <1>0, <1>2 DEF RebalanceShards, TypeOK, Carries
  <2>3. \A k \in held'[t] \ lost'[t] : lock'[k] = t
    BY <1>0, <1>2 DEF RebalanceShards, UnexpiredIsOwned
  <2>4. pc'[t] = "lockAll"
    BY <1>0, <1>2 DEF RebalanceShards, TypeOK
  <2>5. QED
    BY <1>0, <1>2, <2>1, <2>2, <2>3, <2>4, TaskStepInv, ZenonT(30)
       DEF RebalanceShards, TypeOK
<1>3. QED
  BY <1>1, <1>2 DEF Call

LEMMA TryLockInv == ASSUME IInv, NEW t \in Tasks, TryLock(t) PROVE IInv'
<1> DEFINE k == Key(t)
<1>0. TypeOK /\ Carries /\ UnexpiredIsOwned /\ MovesUnderLock
  BY DEF IInv
<1>1. /\ pc[t] \in {"lockAll", "lock"}
      /\ UNCHANGED <<shards, walkVars>>
  BY DEF TryLock
<1>2. k \in Keys /\ (k = Rebalance <=> pc[t] = "lockAll")
  BY <1>0, <1>1, KeyType
<1>3. pc[t] = "lock" => k = Head(moves[t])[1] /\ moves[t] # <<>>
  BY <1>0, <1>1 DEF Key, Carries
<1>k. k = Key(t)
  OBVIOUS
<1> HIDE DEF k
<1>4. CASE /\ lock[k] = None
           /\ lock' = [lock EXCEPT ![k] = t]
           /\ held' = [held EXCEPT ![t] = @ \cup {k}]
           /\ pc' = [pc EXCEPT ![t] = IF k = Rebalance THEN "plan" ELSE "move"]
           /\ retries' = [retries EXCEPT ![t] = 0]
           /\ UNCHANGED <<lost, op, moves, faults>>
  <2>1. TypeOK'
    BY <1>0, <1>1, <1>2, <1>4 DEF TypeOK, walkVars
  <2>2. Carries'
    BY <1>0, <1>1, <1>2, <1>3, <1>4 DEF TypeOK, Carries
  <2>3. None \notin Tasks
    BY ShardManagerAssumption
  <2>4. \A u \in Tasks \ {t} : \A j \in Keys : lock[j] = u => lock'[j] = u
    BY <1>0, <1>4, <2>3 DEF TypeOK
  <2>5. \A j \in held'[t] \ lost'[t] : lock'[j] = t
    BY <1>0, <1>2, <1>4 DEF TypeOK, UnexpiredIsOwned
  <2>6. pc'[t] \in {"move", "unlock"} => Key(t)' \in held'[t]
    BY <1>0, <1>1, <1>2, <1>3, <1>4 DEF TypeOK, Key
  <2>7. op'[t] = "rebalance" /\ pc'[t] \notin {"idle", "lockAll"} => Rebalance \in held'[t]
    BY <1>0, <1>1, <1>2, <1>4 DEF TypeOK, MovesUnderLock
  <2>8. \A u \in Tasks \ {t} : /\ held'[u] = held[u] /\ lost'[u] = lost[u]
                                /\ pc'[u] = pc[u] /\ op'[u] = op[u] /\ moves'[u] = moves[u]
    BY <1>0, <1>4 DEF TypeOK
  <2>9. QED
    BY <1>1, <2>1, <2>2, <2>4, <2>5, <2>6, <2>7, <2>8, TaskStepInv
<1>5. CASE /\ retries[t] < 2
           /\ retries' = [retries EXCEPT ![t] = @ + 1]
           /\ UNCHANGED <<lock, held, lost, pc, op, moves, faults>>
  <2>0. retries' \in [Tasks -> 0 .. 2]
    <3>1. retries \in [Tasks -> 0 .. 2]
      BY <1>0 DEF TypeOK
    <3>2. retries[t] + 1 \in 0 .. 2
      BY <3>1, <1>5
    <3>3. QED
      BY <3>1, <3>2, <1>5
  <2>1. TypeOK'
    BY <1>0, <1>1, <1>5, <2>0 DEF TypeOK, walkVars
  <2>2. Carries' /\ UnexpiredIsOwned' /\ MovesUnderLock'
    BY <1>0, <1>5 DEF Carries, UnexpiredIsOwned, MovesUnderLock, Key, Rebalance
  <2>3. QED
    BY <1>1, <2>1, <2>2, WalkFrame DEF IInv
<1>6. CASE Return(t) /\ UNCHANGED <<lock, faults>>
  BY <1>0, <1>1, <1>6, ReturnInv DEF TypeOK
<1>7. CASE /\ Fault /\ Return(t)
           /\ lock' \in {lock, IF lock[k] = None THEN [lock EXCEPT ![k] = t] ELSE lock}
  <2>1. lock' \in [Keys -> Tasks \cup {None}]
    BY <1>0, <1>2, <1>7, ZenonT(30) DEF TypeOK
  <2>2. \A j \in Keys, u \in Tasks \ {t} : lock[j] = u => lock'[j] = u
    BY <1>0, <1>7, ShardManagerAssumption DEF TypeOK
  <2>3. faults' \in 0 .. MaxFaults
    BY <1>0, <1>7, ShardManagerAssumption DEF TypeOK, Fault
  <2>4. QED
    BY <1>1, <1>7, <2>1, <2>2, <2>3, ReturnInv
<1>8. QED
  BY <1>4, <1>5, <1>6, <1>7, <1>k DEF TryLock

LEMMA PlanInv == ASSUME IInv, NEW t \in Tasks, Plan(t) PROVE IInv'
<1>0. TypeOK /\ Carries /\ UnexpiredIsOwned /\ MovesUnderLock
  BY DEF IInv
<1>1. PICK p \in Plans :
        /\ moves' = [moves EXCEPT ![t] = p]
        /\ pc' = [pc EXCEPT ![t] = IF p = <<>> THEN "unlockAll" ELSE "lock"]
  BY ZenonT(30) DEF Plan
<1>2. pc[t] = "plan" /\ UNCHANGED <<shards, walkVars, lock, held, lost, op, retries, faults>>
  BY DEF Plan
<1>3. p \in Seq(Shards \X Instances)
  BY PlansType
<1>4. TypeOK'
  BY <1>0, <1>1, <1>2, <1>3 DEF TypeOK, walkVars
<1>5. Carries'
  BY <1>0, <1>1 DEF TypeOK, Carries
<1>6. \A k \in held'[t] \ lost'[t] : lock'[k] = t
  BY <1>0, <1>2 DEF UnexpiredIsOwned
<1>7. pc'[t] \in {"unlockAll", "lock"}
  BY <1>0, <1>1 DEF TypeOK
<1>8. op'[t] = "rebalance" => Rebalance \in held'[t]
  BY <1>0, <1>2 DEF MovesUnderLock
<1>9. \A u \in Tasks \ {t} : /\ held'[u] = held[u] /\ lost'[u] = lost[u]
                              /\ pc'[u] = pc[u] /\ op'[u] = op[u] /\ moves'[u] = moves[u]
  BY <1>0, <1>1, <1>2 DEF TypeOK
<1>10. \A u \in Tasks \ {t} : \A k \in Keys : lock[k] = u => lock'[k] = u
  BY <1>2
<1>11. QED
  BY <1>2, <1>4, <1>5, <1>6, <1>7, <1>8, <1>9, <1>10, TaskStepInv

LEMMA MoveInv == ASSUME IInv, NEW t \in Tasks, Move(t) PROVE IInv'
<1>0. TypeOK /\ Carries /\ UnexpiredIsOwned /\ MovesUnderLock
  BY DEF IInv
<1> DEFINE s == Head(moves[t])[1]
           i == Head(moves[t])[2]
<1>1. /\ pc[t] = "move"
      /\ shards' = [shards EXCEPT ![s] = IF s \in Present THEN i ELSE @]
      /\ pc' = [pc EXCEPT ![t] = "unlock"]
      /\ UNCHANGED <<walkVars, lock, held, lost, op, retries, moves, faults>>
  BY DEF Move
<1>2. s \in Shards /\ i \in Instances
  <2>1. Head(moves[t]) \in Shards \X Instances
    BY <1>0, <1>1, KeyType
  <2>2. QED
    BY <2>1
<1>3. shards' \in [Shards -> Instances \cup {Missing, Unassigned}]
  <2> HIDE DEF s, i
  <2>1. QED
    BY <1>0, <1>1, <1>2 DEF TypeOK
<1>4. TypeOK'
  BY <1>0, <1>1, <1>3 DEF TypeOK, walkVars
<1>5. Carries'
  BY <1>0, <1>1 DEF TypeOK, Carries
<1>6. \A k \in held'[t] \ lost'[t] : lock'[k] = t
  BY <1>0, <1>1 DEF UnexpiredIsOwned
<1>7. pc'[t] = "unlock"
  BY <1>0, <1>1 DEF TypeOK
<1>8. Key(t)' \in held'[t]
  <2>1. Key(t) \in held[t] /\ Key(t) = Head(moves[t])[1]
    BY <1>0, <1>1 DEF MovesUnderLock, Key
  <2>2. QED
    BY <2>1, <1>1, <1>7 DEF Key
<1>9. op'[t] = "rebalance" => Rebalance \in held'[t]
  BY <1>0, <1>1 DEF MovesUnderLock
<1>10. \A u \in Tasks \ {t} : /\ held'[u] = held[u] /\ lost'[u] = lost[u]
                               /\ pc'[u] = pc[u] /\ op'[u] = op[u] /\ moves'[u] = moves[u]
  BY <1>0, <1>1 DEF TypeOK
<1>11. \A u \in Tasks \ {t} : \A k \in Keys : lock[k] = u => lock'[k] = u
  BY <1>1
<1>12. UNCHANGED walkVars
  BY <1>1
<1>13. QED
  BY <1>12, <1>4, <1>5, <1>6, <1>7, <1>8, <1>9, <1>10, <1>11, TaskStepInv

(* What is left of the moves when the first is done.                       *)
LEMMA TailType ==
    ASSUME NEW S, NEW q \in Seq(S), q # <<>>
    PROVE  Tail(q) \in Seq(S) /\ (Len(q) # 1 => Tail(q) # <<>>)
<1>1. Tail(q) \in Seq(S) /\ Len(Tail(q)) = Len(q) - 1
  BY HeadTailProperties
<1>2. Len(q) \in Nat /\ Len(<<>>) = 0
  BY LenProperties, EmptySeq
<1>3. Len(q) # 1 => Len(Tail(q)) # 0
  BY <1>1, <1>2
<1>4. QED
  BY <1>1, <1>2, <1>3

LEMMA ReleaseLockInv == ASSUME IInv, NEW t \in Tasks, ReleaseLock(t) PROVE IInv'
<1> DEFINE k == Key(t)
           released == [lock EXCEPT ![k] = IF @ = t /\ k \notin lost[t] THEN None ELSE @]
<1>0. TypeOK /\ Carries /\ UnexpiredIsOwned /\ MovesUnderLock
  BY DEF IInv
<1>1. pc[t] \in {"unlockAll", "unlock"} /\ UNCHANGED <<shards, walkVars>>
  BY DEF ReleaseLock
<1>2. k \in Keys /\ (k = Rebalance <=> pc[t] = "unlockAll")
  BY <1>0, <1>1, KeyType
<1>3. released \in [Keys -> Tasks \cup {None}]
  BY <1>0, <1>2 DEF TypeOK
<1>4. \A j \in Keys, u \in Tasks \ {t} : lock[j] = u => released[j] = u
  BY <1>0, <1>2 DEF TypeOK
<1>5. \A j \in Keys : j # k => released[j] = lock[j]
  BY <1>0 DEF TypeOK
<1>6. \/ AfterUnlock(t, k) /\ lock' = released /\ UNCHANGED faults
      \/ Fault /\ Return(t) /\ lock' \in {lock, released}
  BY DEF ReleaseLock
<1>k. k = Key(t)
  OBVIOUS
<1> HIDE DEF k, released
<1>7. CASE Fault /\ Return(t) /\ lock' \in {lock, released}
  <2>1. faults' \in 0 .. MaxFaults
    BY <1>0, <1>7, ShardManagerAssumption DEF TypeOK, Fault
  <2>2. /\ lock' \in [Keys -> Tasks \cup {None}]
        /\ \A j \in Keys, u \in Tasks \ {t} : lock[j] = u => lock'[j] = u
    BY <1>0, <1>3, <1>4, <1>7 DEF TypeOK
  <2>3. QED
    BY <1>1, <1>7, <2>1, <2>2, ReturnInv
<1>8. CASE Return(t) /\ lock' = released /\ UNCHANGED faults
  BY <1>0, <1>1, <1>3, <1>4, <1>8, ReturnInv, ZenonT(30) DEF TypeOK
<1>9. CASE /\ op[t] # "assign" /\ k # Rebalance
           /\ moves' = [moves EXCEPT ![t] = Tail(@)]
           /\ pc' = [pc EXCEPT ![t] = IF Len(moves[t]) = 1 THEN "unlockAll" ELSE "lock"]
           /\ held' = [held EXCEPT ![t] = @ \ {k}]
           /\ lost' = [lost EXCEPT ![t] = @ \ {k}]
           /\ UNCHANGED <<op, retries, faults>>
           /\ lock' = released
  <2>1. pc[t] = "unlock" /\ moves[t] # <<>> /\ moves[t] \in Seq(Shards \X Instances)
    BY <1>0, <1>1, <1>2, <1>9 DEF Carries, TypeOK
  <2>2. Tail(moves[t]) \in Seq(Shards \X Instances) /\ (Len(moves[t]) # 1 => Tail(moves[t]) # <<>>)
    BY <2>1, TailType
  <2>3. TypeOK'
    BY <1>0, <1>1, <1>3, <1>9, <2>2 DEF TypeOK, walkVars
  <2>4. Carries'
    BY <1>0, <1>9, <2>2 DEF TypeOK, Carries
  <2>5. pc'[t] \in {"unlockAll", "lock"}
    BY <1>0, <1>9 DEF TypeOK
  <2>6. \A j \in held'[t] \ lost'[t] : lock'[j] = t
    <3> SUFFICES ASSUME NEW j \in held'[t] \ lost'[t]
                 PROVE  lock'[j] = t
      OBVIOUS
    <3>1. j \in held[t] \ lost[t] /\ j # k /\ j \in Keys
      BY <1>0, <1>9 DEF TypeOK
    <3>2. QED
      BY <1>0, <1>5, <1>9, <3>1 DEF UnexpiredIsOwned
  <2>7. op'[t] = "rebalance" => Rebalance \in held'[t]
    BY <1>0, <1>9, <2>1, ZenonT(30) DEF TypeOK, MovesUnderLock
  <2>8. \A u \in Tasks \ {t} : /\ held'[u] = held[u] /\ lost'[u] = lost[u]
                                /\ pc'[u] = pc[u] /\ op'[u] = op[u] /\ moves'[u] = moves[u]
    BY <1>0, <1>9 DEF TypeOK
  <2>9. \A u \in Tasks \ {t} : \A j \in Keys : lock[j] = u => lock'[j] = u
    BY <1>4, <1>9
  <2>10. QED
    BY <1>1, <2>3, <2>4, <2>5, <2>6, <2>7, <2>8, <2>9, TaskStepInv
<1>10. QED
  BY <1>6, <1>7, <1>8, <1>9 DEF AfterUnlock

(* Expiry takes the key from its task, and marks it lost in that task's    *)
(* hand.                                                                   *)
LEMMA ExpireInv == ASSUME IInv, NEW k \in Keys, Expire(k) PROVE IInv'
<1>0. TypeOK /\ Carries /\ UnexpiredIsOwned /\ MovesUnderLock /\ WalkInv
  BY DEF IInv
<1>1. /\ lock[k] # None
      /\ lock' = [lock EXCEPT ![k] = None]
      /\ lost' = [lost EXCEPT ![lock[k]] = @ \cup ({k} \cap held[lock[k]])]
      /\ UNCHANGED <<shards, walkVars, held, pc, op, retries, moves, faults>>
  BY DEF Expire
<1>2. lock[k] \in Tasks
  BY <1>0, <1>1 DEF TypeOK
<1>3. lost' \in [Tasks -> SUBSET Keys]
  <2>1. lost[lock[k]] \cup ({k} \cap held[lock[k]]) \in SUBSET Keys
    BY <1>0, <1>2 DEF TypeOK
  <2>2. QED
    BY <1>0, <1>1, <1>2, <2>1 DEF TypeOK
<1>4. lock' \in [Keys -> Tasks \cup {None}]
  BY <1>0, <1>1 DEF TypeOK
<1>5. TypeOK'
  BY <1>0, <1>1, <1>3, <1>4 DEF TypeOK, walkVars
<1>6. Carries'
  BY <1>0, <1>1 DEF Carries
<1>7. MovesUnderLock'
  BY <1>0, <1>1 DEF MovesUnderLock, Key
<1>8. UnexpiredIsOwned'
  <2> SUFFICES ASSUME NEW t \in Tasks, NEW j \in held'[t] \ lost'[t]
               PROVE  lock'[j] = t
    BY DEF UnexpiredIsOwned
  <2>1. j \in held[t] \ lost[t] /\ j \in Keys
    BY <1>0, <1>1, <1>2 DEF TypeOK
  <2>2. lock[j] = t
    BY <1>0, <2>1 DEF UnexpiredIsOwned
  <2>3. j # k
    BY <1>0, <1>1, <1>2, <2>1, <2>2 DEF TypeOK
  <2>4. QED
    BY <1>0, <1>1, <2>1, <2>2, <2>3 DEF TypeOK
<1>9. WalkInv'
  BY <1>0, <1>1, WalkFrame
<1>10. QED
  BY <1>5, <1>6, <1>7, <1>8, <1>9 DEF IInv

(* A step that leaves the tasks alone keeps what is said of them.          *)
LEMMA TaskFrame ==
    Carries /\ UnexpiredIsOwned /\ MovesUnderLock /\ UNCHANGED taskVars =>
        Carries' /\ UnexpiredIsOwned' /\ MovesUnderLock'
BY DEF Carries, UnexpiredIsOwned, MovesUnderLock, Key, taskVars

LEMMA InitializeShardsInv == IInv /\ InitializeShards => IInv'
<1> SUFFICES ASSUME IInv, InitializeShards PROVE IInv'
  OBVIOUS
<1>1. PICK i \in Shards : shards' = [shards EXCEPT ![i] = Unassigned]
  BY ZenonT(30) DEF InitializeShards
<1>2. UNCHANGED walkVars /\ UNCHANGED taskVars
  BY DEF InitializeShards
<1>3. TypeOK'
  BY <1>1, <1>2 DEF IInv, TypeOK, walkVars, taskVars
<1>4. QED
  BY <1>2, <1>3, WalkFrame, TaskFrame DEF IInv

LEMMA GetShardForKeyInv ==
    ASSUME IInv, NEW l \in Lookups, GetShardForKey(l)
    PROVE  IInv'
<1>0. TypeOK /\ WalkInv
  BY DEF IInv
<1>1. PICK i \in Present \ seen[l] :
        /\ seen' = [seen EXCEPT ![l] = @ \cup {i}]
        /\ found' = [found EXCEPT ![l] = IF InRange(hash[l], i) THEN i ELSE @]
  BY ZenonT(30) DEF GetShardForKey
<1>2. i \in Shards /\ found[l] = NotFound /\ i # NotFound
  BY <1>1, ShardManagerAssumption, SMTT(40) DEF GetShardForKey, Present, Shards, NotFound
<1>3. UNCHANGED <<shards, hash>> /\ UNCHANGED taskVars
  BY DEF GetShardForKey
<1>4. TypeOK'
  BY <1>0, <1>1, <1>2, <1>3 DEF TypeOK, taskVars
<1>5. WalkInv'
  <2> SUFFICES ASSUME NEW m \in Lookups
               PROVE  /\ found'[m] # NotFound => InRange(hash[m], found'[m])
                      /\ found'[m] = NotFound => \A k \in seen'[m] : ~InRange(hash[m], k)
    BY <1>3 DEF WalkInv, InRange, RangeStart, RangeEnd, range_size, NotFound
  <2>1. CASE m # l
    BY <2>1, <1>0, <1>1 DEF WalkInv, TypeOK
  <2>2. CASE m = l
    <3>1. found'[l] = (IF InRange(hash[l], i) THEN i ELSE NotFound) /\ seen'[l] = seen[l] \cup {i}
      BY <1>0, <1>1, <1>2 DEF TypeOK
    <3>2. \A k \in seen[l] : ~InRange(hash[l], k)
      BY <1>0, <1>2 DEF WalkInv
    <3>3. QED
      BY <2>2, <3>1, <3>2, <1>2
  <2>3. QED
    BY <2>1, <2>2
<1>6. QED
  BY <1>3, <1>4, <1>5, TaskFrame DEF IInv

LEMMA NextLookupInv ==
    ASSUME IInv, NEW l \in Lookups, NextLookup(l)
    PROVE  IInv'
<1>0. TypeOK /\ WalkInv
  BY DEF IInv
<1>1. PICK h \in 0 .. MaxHash : hash' = [hash EXCEPT ![l] = h]
  BY ZenonT(30) DEF NextLookup
<1>2. /\ seen' = [seen EXCEPT ![l] = {}]
      /\ found' = [found EXCEPT ![l] = NotFound]
      /\ UNCHANGED shards /\ UNCHANGED taskVars
  BY DEF NextLookup
<1>3. TypeOK'
  BY <1>0, <1>1, <1>2 DEF TypeOK, taskVars
<1>4. WalkInv'
  <2> SUFFICES ASSUME NEW m \in Lookups
               PROVE  /\ found'[m] # NotFound => InRange(hash'[m], found'[m])
                      /\ found'[m] = NotFound => \A k \in seen'[m] : ~InRange(hash'[m], k)
    BY DEF WalkInv, InRange, RangeStart, RangeEnd, range_size, NotFound
  <2>1. CASE m # l
    BY <2>1, <1>0, <1>1, <1>2 DEF WalkInv, TypeOK
  <2>2. CASE m = l
    BY <2>2, <1>0, <1>2 DEF TypeOK
  <2>3. QED
    BY <2>1, <2>2
<1>5. QED
  BY <1>2, <1>3, <1>4, TaskFrame DEF IInv

(* IInv is inductive.                                                      *)
LEMMA Inductive == IInv /\ [Next]_vars => IInv'
<1> SUFFICES ASSUME IInv, [Next]_vars PROVE IInv'
  OBVIOUS
<1>1. CASE InitializeShards
  BY <1>1, InitializeShardsInv
<1>2. ASSUME NEW l \in Lookups, GetShardForKey(l) \/ NextLookup(l) PROVE IInv'
  BY <1>2, GetShardForKeyInv, NextLookupInv
<1>3. ASSUME NEW t \in Tasks, Call(t) PROVE IInv'
  BY <1>3, CallInv
<1>4. ASSUME NEW t \in Tasks, Step(t) PROVE IInv'
  BY <1>4, TryLockInv, PlanInv, MoveInv, ReleaseLockInv DEF Step
<1>5. ASSUME NEW k \in Keys, Expire(k) PROVE IInv'
  BY <1>5, ExpireInv
<1>6. CASE UNCHANGED vars
  <2>1. UNCHANGED shards /\ UNCHANGED walkVars /\ UNCHANGED taskVars
    BY <1>6 DEF vars
  <2>2. TypeOK'
    BY <2>1 DEF IInv, TypeOK, walkVars, taskVars
  <2>3. QED
    BY <2>1, <2>2, WalkFrame, TaskFrame DEF IInv
<1>7. QED
  BY <1>1, <1>2, <1>3, <1>4, <1>5, <1>6 DEF Next

(* The types, the walks, and what the tasks hold, in every state.          *)
THEOREM Invariant == Spec => []IInv
<1>1. Init => IInv
  <2> SUFFICES ASSUME Init PROVE IInv
    OBVIOUS
  <2>1. TypeOK
    BY ShardManagerAssumption DEF Init, TypeOK
  <2>2. Carries /\ UnexpiredIsOwned /\ MovesUnderLock
    BY DEF Init, Carries, UnexpiredIsOwned, MovesUnderLock
  <2>3. WalkInv
    BY DEF Init, WalkInv
  <2>4. QED
    BY <2>1, <2>2, <2>3 DEF IInv
<1>2. QED
  BY <1>1, Inductive, PTL DEF Spec

(* Lookups agree and complete walks find a shard, for every shard_count    *)
(* and every MaxHash, while shards are inserted and reassigned.            *)
THEOREM LookupsAlwaysExact == Spec => []LookupsAreExact
<1>1. IInv => LookupsAreExact
  <2> SUFFICES ASSUME IInv PROVE LookupsAreExact
    OBVIOUS
  <2>1. ASSUME NEW l \in Lookups, NEW m \in Lookups,
               hash[l] = hash[m], found[l] # NotFound, found[m] # NotFound
        PROVE  found[l] = found[m]
    <3>1. /\ found[l] \in Shards /\ found[m] \in Shards
          /\ hash[l] \in Nat
          /\ InRange(hash[l], found[l]) /\ InRange(hash[l], found[m])
      BY <2>1 DEF IInv, TypeOK, WalkInv
    <3>2. ~(found[l] < found[m]) /\ ~(found[m] < found[l])
      BY <3>1, RangesAreDisjoint
    <3>3. QED
      BY <3>1, <3>2, ShardManagerAssumption DEF Shards
  <2>2. ASSUME NEW l \in Lookups, seen[l] = Shards, found[l] = NotFound
        PROVE  FALSE
    <3>1. PICK i \in Shards : InRange(hash[l], i)
      BY RangesCover DEF IInv, TypeOK
    <3>2. QED
      BY <2>2, <3>1 DEF IInv, WalkInv
  <2>3. QED
    BY <2>1, <2>2 DEF LookupsAreExact
<1>2. QED
  BY <1>1, Invariant, PTL

(* A lock that has not expired is owned by the task that holds it.         *)
THEOREM LocksAreOwned == Spec => []UnexpiredIsOwned
<1>1. IInv => UnexpiredIsOwned
  BY DEF IInv
<1>2. QED
  BY <1>1, Invariant, PTL

(* Shards are assigned under their locks, and by a rebalance under the     *)
(* rebalance lock.                                                         *)
THEOREM MovesAreLocked == Spec => []MovesUnderLock
<1>1. IInv => MovesUnderLock
  BY DEF IInv
<1>2. QED
  BY <1>1, Invariant, PTL

-----------------------------------------------------------------------------
(* Of two tasks that assign the same shard, or rebalance, at a time, one   *)
(* has a lock that has expired.                                            *)
HoldersExclude ==
    \A t, u \in Tasks : t # u =>
        held[t] \cap held[u] \subseteq lost[t] \cup lost[u]

(* Only the expiry of a lock lets two tasks hold it: acquire_lock and      *)
(* release_lock never do, however their commands fail.                     *)
THEOREM LocksExclude == Spec => []HoldersExclude
<1>1. UnexpiredIsOwned => HoldersExclude
  BY DEF UnexpiredIsOwned, HoldersExclude
<1>2. QED
  BY <1>1, LocksAreOwned, PTL

(* What a step may do to the map: insert a shard that is not in it, or     *)
(* give a shard that is to an instance, in a task that acquired its lock.  *)
MapChangesUnderLock ==
    \A s \in Shards : shards'[s] # shards[s] =>
        \/ shards[s] = Missing /\ shards'[s] = Unassigned
        \/ /\ shards[s] # Missing /\ shards'[s] \in Instances
           /\ \E t \in Tasks : pc[t] = "move" /\ s \in held[t]

(* No shard leaves the map, none is assigned before it is inserted, and    *)
(* none is assigned without its lock.                                      *)
THEOREM MapChangesAreLocked == Spec => [][MapChangesUnderLock]_vars
<1>1. IInv /\ [Next]_vars => [MapChangesUnderLock]_vars
  <2> SUFFICES ASSUME IInv, Next, NEW s \in Shards, shards'[s] # shards[s]
               PROVE  \/ shards[s] = Missing /\ shards'[s] = Unassigned
                      \/ /\ shards[s] # Missing /\ shards'[s] \in Instances
                         /\ \E t \in Tasks : pc[t] = "move" /\ s \in held[t]
    BY DEF MapChangesUnderLock
  <2>1. TypeOK /\ Carries /\ MovesUnderLock
    BY DEF IInv
  <2>2. CASE InitializeShards
    BY <2>1, <2>2 DEF InitializeShards, Present, TypeOK
  <2>3. CASE \E t \in Tasks : Move(t)
    <3>1. PICK t \in Tasks : Move(t)
      BY <2>3
    <3>2. pc[t] = "move"
      BY <3>1 DEF Move
    <3>3. Head(moves[t]) \in Shards \X Instances
      BY <2>1, <3>2, KeyType
    <3>4. s = Head(moves[t])[1] /\ s \in Present /\ shards'[s] = Head(moves[t])[2]
      BY <2>1, <3>1, <3>3 DEF Move, TypeOK
    <3>5. s \in held[t]
      BY <2>1, <3>2, <3>4 DEF MovesUnderLock, Key
    <3>6. QED
      BY <3>2, <3>3, <3>4, <3>5 DEF Present
  <2>4. ~InitializeShards /\ (\A t \in Tasks : ~Move(t)) => UNCHANGED shards
    BY DEF Next, GetShardForKey, NextLookup, Call, AssignShard, RebalanceShards, Step, TryLock,
           Plan, ReleaseLock, Expire
  <2>5. QED
    BY <2>2, <2>3, <2>4
<1>2. QED
  BY <1>1, Invariant, PTL DEF Spec

-----------------------------------------------------------------------------
(* What a call has before it: the plan is made once, and an assignment     *)
(* takes five steps at most, three of them tries of acquire_lock.          *)
Phase(t) ==
    CASE pc[t] = "idle" -> 0
      [] pc[t] = "plan" -> 2
      [] pc[t] = "lockAll" -> 3
      [] OTHER -> 1

StepsLeft(t) ==
    CASE pc[t] = "lockAll" -> 2 - retries[t]
      [] pc[t] = "lock" -> 5 * Len(moves[t]) - retries[t]
      [] pc[t] = "move" -> 5 * Len(moves[t]) - 3
      [] pc[t] = "unlock" -> 5 * Len(moves[t]) - 4
      [] OTHER -> 0

Nearer(t) ==
    \/ Phase(t)' < Phase(t)
    \/ Phase(t)' = Phase(t) /\ StepsLeft(t)' < StepsLeft(t)

Waits(t) == Phase(t)' = Phase(t) /\ StepsLeft(t)' = StepsLeft(t)

LEMMA StepsLeftType ==
    ASSUME IInv, NEW t \in Tasks
    PROVE  Phase(t) \in Nat /\ StepsLeft(t) \in Nat
<1>1. retries[t] \in 0 .. 2 /\ Len(moves[t]) \in Nat
  BY DEF IInv, TypeOK
<1>2. pc[t] \in {"lock", "move", "unlock"} => Len(moves[t]) # 0
  BY DEF IInv, TypeOK, Carries
<1>3. QED
  BY <1>1, <1>2 DEF Phase, StepsLeft

LEMMA StepNearer ==
    ASSUME IInv, NEW t \in Tasks, Step(t)
    PROVE  Nearer(t)
<1>1. TypeOK /\ Carries
  BY DEF IInv
<1>2. retries[t] \in 0 .. 2 /\ Len(moves[t]) \in Nat
  BY <1>1 DEF TypeOK
<1>3. ASSUME Return(t), pc[t] # "idle"
      PROVE  Nearer(t)
  <2>1. pc'[t] = "idle"
    BY <1>1, <1>3 DEF Return, TypeOK
  <2>2. QED
    BY <1>1, <1>3, <2>1 DEF Nearer, Phase, TypeOK
<1>4. CASE TryLock(t)
  <2>1. pc[t] \in {"lockAll", "lock"}
    BY <1>4 DEF TryLock
  <2>2. Key(t) = Rebalance <=> pc[t] = "lockAll"
    BY <1>1, <2>1, KeyType
  <2>3. CASE /\ pc' = [pc EXCEPT ![t] = IF Key(t) = Rebalance THEN "plan" ELSE "move"]
             /\ UNCHANGED moves
    <3>1. pc'[t] = IF pc[t] = "lockAll" THEN "plan" ELSE "move"
      BY <1>1, <2>2, <2>3 DEF TypeOK
    <3>2. CASE pc[t] = "lockAll"
      BY <3>1, <3>2 DEF Nearer, Phase
    <3>3. CASE pc[t] = "lock"
      BY <1>2, <2>3, <3>1, <3>3 DEF Nearer, Phase, StepsLeft
    <3>4. QED
      BY <2>1, <3>2, <3>3
  <2>4. CASE /\ retries[t] < 2 /\ retries' = [retries EXCEPT ![t] = @ + 1]
             /\ UNCHANGED <<pc, moves>>
    <3>1. retries'[t] = retries[t] + 1
      BY <1>1, <2>4 DEF TypeOK
    <3>2. QED
      BY <1>2, <2>1, <2>4, <3>1 DEF Nearer, Phase, StepsLeft
  <2>5. QED
    BY <1>3, <1>4, <2>1, <2>3, <2>4 DEF TryLock
<1>5. CASE Plan(t)
  <2>1. pc[t] = "plan" /\ pc'[t] \in {"unlockAll", "lock"}
    BY <1>1, <1>5 DEF Plan, TypeOK
  <2>2. QED
    BY <2>1 DEF Nearer, Phase
<1>6. CASE Move(t)
  <2>1. pc[t] = "move" /\ pc'[t] = "unlock" /\ moves' = moves
    BY <1>1, <1>6 DEF Move, TypeOK
  <2>2. QED
    BY <1>2, <2>1 DEF Nearer, Phase, StepsLeft
<1>7. CASE ReleaseLock(t)
  <2>1. pc[t] \in {"unlockAll", "unlock"}
    BY <1>7 DEF ReleaseLock
  <2>2. CASE /\ Key(t) # Rebalance
             /\ moves' = [moves EXCEPT ![t] = Tail(@)]
             /\ pc' = [pc EXCEPT ![t] = IF Len(moves[t]) = 1 THEN "unlockAll" ELSE "lock"]
             /\ UNCHANGED retries
    <3>1. pc[t] = "unlock" /\ moves[t] # <<>> /\ moves[t] \in Seq(Shards \X Instances)
      BY <1>1, <2>1, <2>2, KeyType DEF TypeOK
    <3>2. Len(moves'[t]) = Len(moves[t]) - 1
      BY <1>1, <2>2, <3>1, HeadTailProperties DEF TypeOK
    <3>3. pc'[t] = IF Len(moves[t]) = 1 THEN "unlockAll" ELSE "lock"
      BY <1>1, <2>2 DEF TypeOK
    <3>4. QED
      BY <1>2, <2>2, <3>1, <3>2, <3>3 DEF Nearer, Phase, StepsLeft
  <2>3. QED
    BY <1>3, <1>7, <2>1, <2>2 DEF ReleaseLock, AfterUnlock
<1>8. QED
  BY <1>4, <1>5, <1>6, <1>7 DEF Step

(* Each step of a call brings it nearer to its end, and nobody else's step *)
(* takes it back, the expiry of its locks included.                        *)
CallsComeNearer ==
    \A t \in Tasks :
        /\ Phase(t) \in Nat /\ StepsLeft(t) \in Nat
        /\ Step(t) => Nearer(t)
        /\ pc[t] # "idle" => Nearer(t) \/ Waits(t)

(* assign_shard and rebalance_shards end after a bounded number of their   *)
(* own steps once the plan is made, whatever others do to the locks and    *)
(* the map, and whatever fails.                                            *)
THEOREM CallsAreFinite == Spec => [][CallsComeNearer]_vars
<1>1. IInv /\ [Next]_vars => [CallsComeNearer]_vars
  <2> SUFFICES ASSUME IInv, Next, NEW t \in Tasks, pc[t] # "idle"
               PROVE  Nearer(t) \/ Waits(t)
    BY StepsLeftType, StepNearer DEF CallsComeNearer
  <2>1. CASE Step(t)
    BY <2>1, StepNearer
  <2>2. CASE ~Step(t)
    <3>1. pc'[t] = pc[t] /\ retries'[t] = retries[t] /\ moves'[t] = moves[t]
      <4>1. CASE InitializeShards \/ \E l \in Lookups : GetShardForKey(l) \/ NextLookup(l)
        BY <4>1 DEF InitializeShards, GetShardForKey, NextLookup, taskVars
      <4>2. CASE \E k \in Keys : Expire(k)
        BY <4>2 DEF Expire
      <4>3. ASSUME NEW u \in Tasks, Call(u)
            PROVE  pc'[t] = pc[t] /\ retries'[t] = retries[t] /\ moves'[t] = moves[t]
        BY <4>3 DEF Call, AssignShard, RebalanceShards, IInv, TypeOK
      <4>4. ASSUME NEW u \in Tasks, u # t, Step(u)
            PROVE  pc'[t] = pc[t] /\ retries'[t] = retries[t] /\ moves'[t] = moves[t]
        BY <4>4 DEF Step, TryLock, Plan, Move, ReleaseLock, AfterUnlock, Return, IInv, TypeOK
      <4>5. QED
        BY <2>2, <4>1, <4>2, <4>3, <4>4 DEF Next
    <3>2. QED
      BY <3>1 DEF Waits, Phase, StepsLeft
  <2>3. QED
    BY <2>1, <2>2
<1>2. QED
  BY <1>1, Invariant, PTL DEF Spec
=============================================================================
