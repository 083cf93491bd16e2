--------------------------- MODULE ServiceProofs ---------------------------
(***************************************************************************)
(* Proofs about the parts of the service around the event store:           *)
(*   - the load shedder and the circuit breaker around Redis               *)
(*     (GuardedRedis), for any finite number of clients, any number of     *)
(*     permits and any threshold;                                          *)
(*   - the limit per client (RateLimiter), for any number of clients, any *)
(*     limit and any length of the window;                                 *)
(*   - the lockout of AuthService (UserAccounts), for any number of users  *)
(*     and of logins at once;                                              *)
(*   - the snapshot workers (Snapshots), for any number of instances and   *)
(*     aggregates, any threshold and histories of any length;              *)
(*   - the process (Lifecycle), for any number of connections, with Kafka  *)
(*     on or off and with or without faults.                               *)
(* They share no state and no step; each has a specification of its own.   *)
(***************************************************************************)
EXTENDS GuardedRedis, RateLimiter, UserAccounts, Snapshots, Lifecycle, FiniteSetTheorems, TLAPS

-----------------------------------------------------------------------------
(* The guards of Redis.                                                    *)

(* The type invariant but for the server, and for the bound on the permits *)
(* that only their accounting gives.                                       *)
BreakerType ==
    /\ pc \in [Clients -> Stages]
    /\ available \in Nat
    /\ state \in {"Closed", "Open", "HalfOpen"}
    /\ age \in 0 .. reset_timeout
    /\ failure_count \in Nat

(* Cardinality of the holders while one client comes, goes or stays.       *)
LEMMA HoldersStep ==
    ASSUME BreakerType, NEW c \in Clients, NEW s \in Stages, Goto(c, s)
    PROVE  /\ IsFiniteSet(Holders) /\ Cardinality(Holders) \in Nat
           /\ c \notin Holders /\ s \notin {"idle", "queued"} =>
                 Cardinality(Holders') = Cardinality(Holders) + 1
           /\ c \in Holders /\ s \in {"idle", "queued"} =>
                 Cardinality(Holders') = Cardinality(Holders) - 1
           /\ (c \in Holders <=> s \notin {"idle", "queued"}) => Holders' = Holders
<1>1. IsFiniteSet(Holders)
  <2>1. Holders \subseteq Clients
    BY DEF Holders
  <2>2. QED
    BY <2>1, FS_Subset, GuardedRedisAssumption
<1>2. Cardinality(Holders) \in Nat
  BY <1>1, FS_CardinalityType
<1>3. ASSUME c \notin Holders, s \notin {"idle", "queued"}
      PROVE  Cardinality(Holders') = Cardinality(Holders) + 1
  <2>1. Holders' = Holders \cup {c}
    BY <1>3 DEF Holders, Goto, BreakerType
  <2>2. QED
    BY <2>1, <1>1, <1>3, FS_AddElement, SMTT(30)
<1>4. ASSUME c \in Holders, s \in {"idle", "queued"}
      PROVE  Cardinality(Holders') = Cardinality(Holders) - 1
  <2>1. Holders' = Holders \ {c}
    BY <1>4 DEF Holders, Goto, BreakerType
  <2>2. QED
    BY <2>1, <1>1, <1>4, FS_RemoveElement, ZenonT(30)
<1>5. ASSUME c \in Holders <=> s \notin {"idle", "queued"} PROVE Holders' = Holders
  BY <1>5 DEF Holders, Goto, BreakerType
<1>6. QED
  BY <1>1, <1>2, <1>3, <1>4, <1>5

Inv == BreakerType /\ PermitAccounting /\ TripPending

LEMMA InitInv == Init => Inv
<1> SUFFICES ASSUME Init PROVE Inv
  OBVIOUS
<1>1. BreakerType
  BY GuardedRedisAssumption DEF Init, BreakerType, Stages
<1>2. Holders = {}
  BY DEF Init, Holders
<1>3. PermitAccounting
  BY <1>2, FS_EmptySet, GuardedRedisAssumption DEF Init, PermitAccounting
<1>4. TripPending
  BY GuardedRedisAssumption DEF Init, TripPending
<1>5. QED
  BY <1>1, <1>3, <1>4 DEF Inv

(* What a client's step does to the permits, put together.                 *)
LEMMA PermitsStep ==
    ASSUME Inv, NEW c \in Clients, NEW s \in Stages, Goto(c, s),
           \/ pc[c] = "queued" /\ s = "admitted" /\ available > 0 /\ available' = available - 1
           \/ pc[c] = "leaving" /\ s = "idle" /\ available' = available + 1
           \/ /\ pc[c] \in {"idle", "queued"} <=> s \in {"idle", "queued"}
              /\ available' = available
    PROVE  PermitAccounting' /\ available' \in Nat /\ pc' \in [Clients -> Stages]
<1> USE DEF Inv, BreakerType, PermitAccounting
<1>1. c \in Holders <=> pc[c] \notin {"idle", "queued"}
  BY DEF Holders
<1>2. CASE pc[c] = "queued" /\ s = "admitted" /\ available > 0 /\ available' = available - 1
  <2>1. /\ Cardinality(Holders) \in Nat
        /\ Cardinality(Holders') = Cardinality(Holders) + 1
    BY <1>1, <1>2, HoldersStep
  <2>2. PermitAccounting' /\ available' \in Nat
    BY <2>1, <1>2, GuardedRedisAssumption
  <2>3. QED
    BY <2>2 DEF Goto
<1>3. CASE pc[c] = "leaving" /\ s = "idle" /\ available' = available + 1
  <2>1. /\ Cardinality(Holders) \in Nat
        /\ Cardinality(Holders') = Cardinality(Holders) - 1
    BY <1>1, <1>3, HoldersStep
  <2>2. PermitAccounting' /\ available' \in Nat
    BY <2>1, <1>3, GuardedRedisAssumption
  <2>3. QED
    BY <2>2 DEF Goto
<1>4. CASE /\ pc[c] \in {"idle", "queued"} <=> s \in {"idle", "queued"}
           /\ available' = available
  BY <1>1, <1>4, HoldersStep, ZenonT(30) DEF Goto
<1>5. QED
  BY <1>2, <1>3, <1>4

(* A client that is not tripping leaves those that are where they are.     *)
LEMMA TrippingStays ==
    ASSUME BreakerType, TripPending, NEW c \in Clients, NEW s \in Stages, Goto(c, s),
           pc[c] # "tripping", state' = "Closed" => state = "Closed",
           failure_count' = failure_count
    PROVE  TripPending'
<1> SUFFICES ASSUME state' = "Closed", failure_count' >= failure_threshold
             PROVE  \E d \in Clients : pc'[d] = "tripping"
  BY DEF TripPending
<1>1. PICK d \in Clients : pc[d] = "tripping"
  BY DEF TripPending
<1>2. pc'[d] = "tripping"
  BY <1>1 DEF Goto, BreakerType
<1>3. QED
  BY <1>2

LEMMA ClientInv ==
    ASSUME Inv, NEW c \in Clients, Call(c) \/ Operation(c)
    PROVE  Inv'
<1> USE DEF Inv, BreakerType, breakerVars
<1>1. CASE Call(c)
  <2>1. Goto(c, "queued") /\ "queued" \in Stages /\ pc[c] = "idle"
    BY <1>1 DEF Call, Stages
  <2>2. PermitAccounting' /\ available' \in Nat /\ pc' \in [Clients -> Stages]
    BY <1>1, <2>1, PermitsStep DEF Call
  <2>3. TripPending'
    BY <1>1, <2>1, TrippingStays DEF Call
  <2>4. QED
    BY <1>1, <2>2, <2>3 DEF Call
<1>2. CASE AcquirePermit(c)
  <2>1. Goto(c, "admitted") /\ "admitted" \in Stages /\ pc[c] = "queued"
    BY <1>2 DEF AcquirePermit, Stages
  <2>2. PermitAccounting' /\ available' \in Nat /\ pc' \in [Clients -> Stages]
    BY <1>2, <2>1, PermitsStep DEF AcquirePermit
  <2>3. TripPending'
    BY <1>2, <2>1, TrippingStays DEF AcquirePermit
  <2>4. QED
    BY <1>2, <2>2, <2>3 DEF AcquirePermit
<1>3. CASE QueueTimeout(c)
  <2>1. Goto(c, "idle") /\ "idle" \in Stages /\ pc[c] = "queued"
    BY <1>3 DEF QueueTimeout, Stages
  <2>2. PermitAccounting' /\ available' \in Nat /\ pc' \in [Clients -> Stages]
    BY <1>3, <2>1, PermitsStep DEF QueueTimeout
  <2>3. TripPending'
    BY <1>3, <2>1, TrippingStays DEF QueueTimeout
  <2>4. QED
    BY <1>3, <2>2, <2>3 DEF QueueTimeout
<1>4. CASE AllowRequest(c)
  <2>1. PICK s \in {"calling", "leaving"} : Goto(c, s)
    BY <1>4 DEF AllowRequest
  <2>2. s \in Stages /\ pc[c] = "admitted"
    BY <1>4, <2>1 DEF AllowRequest, Stages
  <2>3. PermitAccounting' /\ available' \in Nat /\ pc' \in [Clients -> Stages]
    BY <1>4, <2>1, <2>2, PermitsStep DEF AllowRequest
  <2>4. TripPending'
    BY <1>4, <2>1, <2>2, TrippingStays DEF AllowRequest
  <2>5. QED
    BY <1>4, <2>3, <2>4 DEF AllowRequest
<1>5. CASE InnerCall(c)
  <2>1. PICK s \in {"succeeded", "failed"} : Goto(c, s)
    BY <1>5 DEF InnerCall
  <2>2. s \in Stages /\ pc[c] = "calling"
    BY <1>5, <2>1 DEF InnerCall, Stages
  <2>3. PermitAccounting' /\ available' \in Nat /\ pc' \in [Clients -> Stages]
    BY <1>5, <2>1, <2>2, PermitsStep DEF InnerCall
  <2>4. TripPending'
    BY <1>5, <2>1, <2>2, TrippingStays DEF InnerCall
  <2>5. QED
    BY <1>5, <2>3, <2>4 DEF InnerCall
<1>6. CASE RecordSuccess(c)
  <2>1. Goto(c, "leaving") /\ "leaving" \in Stages /\ pc[c] = "succeeded"
    BY <1>6 DEF RecordSuccess, Stages
  <2>2. PermitAccounting' /\ available' \in Nat /\ pc' \in [Clients -> Stages]
    BY <1>6, <2>1, PermitsStep DEF RecordSuccess
  <2>3. CASE state = "HalfOpen"
    BY <1>6, <2>2, <2>3, GuardedRedisAssumption DEF RecordSuccess, TripPending
  <2>4. CASE state # "HalfOpen"
    BY <1>6, <2>1, <2>2, <2>4, TrippingStays DEF RecordSuccess
  <2>5. QED
    BY <2>3, <2>4
<1>7. CASE CountFailure(c)
  <2>1. PICK s \in {"tripping", "leaving"} :
          /\ Goto(c, s)
          /\ s = "leaving" <=> ~(failure_count' >= failure_threshold)
    BY <1>7 DEF CountFailure
  <2>2. s \in Stages /\ pc[c] = "failed"
    BY <1>7, <2>1 DEF CountFailure, Stages
  <2>3. PermitAccounting' /\ available' \in Nat /\ pc' \in [Clients -> Stages]
    BY <1>7, <2>1, <2>2, PermitsStep DEF CountFailure
  <2>4. TripPending'
    BY <2>1 DEF TripPending, Goto
  <2>5. QED
    BY <1>7, <2>3, <2>4 DEF CountFailure
<1>8. CASE Trip(c)
  <2>1. Goto(c, "leaving") /\ "leaving" \in Stages /\ pc[c] = "tripping"
    BY <1>8 DEF Trip, Stages
  <2>2. PermitAccounting' /\ available' \in Nat /\ pc' \in [Clients -> Stages]
    BY <1>8, <2>1, PermitsStep DEF Trip
  <2>3. QED
    BY <1>8, <2>2, GuardedRedisAssumption DEF Trip, TripPending
<1>9. CASE ReleasePermit(c)
  <2>1. Goto(c, "idle") /\ "idle" \in Stages /\ pc[c] = "leaving"
    BY <1>9 DEF ReleasePermit, Stages
  <2>2. PermitAccounting' /\ available' \in Nat /\ pc' \in [Clients -> Stages]
    BY <1>9, <2>1, PermitsStep DEF ReleasePermit
  <2>3. TripPending'
    BY <1>9, <2>1, TrippingStays DEF ReleasePermit
  <2>4. QED
    BY <1>9, <2>2, <2>3 DEF ReleasePermit
<1>10. QED
  BY <1>1, <1>2, <1>3, <1>4, <1>5, <1>6, <1>7, <1>8, <1>9 DEF Operation

LEMMA InvHolds == Spec => []Inv
<1>1. Inv /\ [Next]_vars => Inv'
  <2> SUFFICES ASSUME Inv, [Next]_vars PROVE Inv'
    OBVIOUS
  <2>1. ASSUME NEW c \in Clients, Call(c) \/ Operation(c) PROVE Inv'
    BY <2>1, ClientInv
  <2>2. CASE Tick
    <3>1. Holders' = Holders
      BY <2>2 DEF Tick, Holders
    <3>2. QED
      BY <2>2, <3>1, GuardedRedisAssumption
      DEF Tick, Inv, BreakerType, PermitAccounting, TripPending
  <2>3. CASE ServerRecovers \/ UNCHANGED vars
    <3>1. UNCHANGED <<pc, available, state, age, failure_count>>
      BY <2>3 DEF ServerRecovers, vars, breakerVars
    <3>2. Holders' = Holders
      BY <3>1 DEF Holders
    <3>3. QED
      BY <3>1, <3>2 DEF Inv, BreakerType, PermitAccounting, TripPending
  <2>4. QED
    BY <2>1, <2>2, <2>3 DEF Next
<1>2. QED
  BY InitInv, <1>1, PTL DEF Spec

LEMMA HealthyType == Spec => [](healthy \in BOOLEAN)
<1>1. Init => healthy \in BOOLEAN
  BY ZenonT(30) DEF Init
<1>2. healthy \in BOOLEAN /\ [Next]_vars => (healthy \in BOOLEAN)'
  <2> SUFFICES ASSUME healthy \in BOOLEAN, [Next]_vars PROVE (healthy \in BOOLEAN)'
    OBVIOUS
  <2>1. UNCHANGED healthy \/ healthy' = TRUE
    BY DEF Next, vars, Call, Operation, AcquirePermit, QueueTimeout, AllowRequest,
           InnerCall, RecordSuccess, CountFailure, Trip, ReleasePermit, Tick, ServerRecovers
  <2>2. QED
    BY <2>1, ZenonT(30)
<1>3. QED
  BY <1>1, <1>2, PTL DEF Spec

(* Every variable of the guard keeps its type; the semaphore never holds   *)
(* more permits than it was made with.                                     *)
THEOREM TypeCorrect == Spec => []TypeOK
<1>1. Inv => available \in 0 .. max_concurrent_requests
  <2> SUFFICES ASSUME Inv PROVE available \in 0 .. max_concurrent_requests
    OBVIOUS
  <2>1. Holders \subseteq Clients
    BY DEF Holders
  <2>2. Cardinality(Holders) \in Nat
    BY <2>1, FS_Subset, FS_CardinalityType, GuardedRedisAssumption
  <2>3. QED
    BY <2>2, GuardedRedisAssumption DEF Inv, BreakerType, PermitAccounting
<1>2. Inv /\ healthy \in BOOLEAN => TypeOK
  BY <1>1 DEF Inv, BreakerType, TypeOK
<1>3. QED
  BY <1>2, InvHolds, HealthyType, PTL

(* Every way out of a guarded operation gives back the permit it took      *)
(* (LoadShedderPermit).                                                    *)
THEOREM PermitsAreConserved == Spec => []PermitAccounting
<1>1. Inv => PermitAccounting
  BY DEF Inv
<1>2. QED
  BY <1>1, InvHolds, PTL

(* The circuit is not left closed with the threshold reached, though       *)
(* record_failure counts and opens in two steps.                           *)
THEOREM TripsArePending == Spec => []TripPending
<1>1. Inv => TripPending
  BY DEF Inv
<1>2. QED
  BY <1>1, InvHolds, PTL

(* Clients whose failure may still open the circuit.                       *)
LateFailures == {c \in Clients : pc[c] \in {"failed", "tripping"}}

(* Once the server has recovered no call adds to them, and each opening of *)
(* the circuit uses one up.                                                *)
LateFailuresRunOut ==
    healthy =>
        /\ healthy'
        /\ LateFailures' \subseteq LateFailures
        /\ state' = "Open" /\ (state # "Open" \/ age' < age) => LateFailures' # LateFailures

(* record_failure opens the circuit after the call that failed: when Redis *)
(* has recovered, the circuit opens, or its timer starts again, at most    *)
(* once for each failure that was still on its way.                        *)
THEOREM LateFailuresAreFinite == Spec => [][LateFailuresRunOut]_vars
<1>1. Inv /\ [Next]_vars => [LateFailuresRunOut]_vars
  <2> SUFFICES ASSUME Inv, Next, healthy PROVE LateFailuresRunOut
    BY DEF LateFailuresRunOut
  <2>1. pc \in [Clients -> Stages]
    BY DEF Inv, BreakerType
  <2>2. ASSUME NEW c \in Clients, NEW s \in Stages, Goto(c, s), UNCHANGED healthy,
               s = "failed" => FALSE,
               s = "tripping" => pc[c] = "failed",
               state' = "Open" /\ (state # "Open" \/ age' < age) => pc[c] = "tripping"
        PROVE  LateFailuresRunOut
    <3>1. \A d \in Clients : pc'[d] = IF d = c THEN s ELSE pc[d]
      BY <2>1, <2>2 DEF Goto
    <3>2. LateFailures' \subseteq LateFailures
      BY <2>2, <3>1 DEF LateFailures
    <3>3. s # "tripping" /\ pc[c] = "tripping" => LateFailures' # LateFailures
      BY <2>2, <3>1 DEF LateFailures
    <3> QED
      BY <2>2, <3>2, <3>3 DEF LateFailuresRunOut
  <2>3. ASSUME NEW c \in Clients, Call(c) PROVE LateFailuresRunOut
    BY <2>2, <2>3 DEF Call, Stages, breakerVars, Inv, BreakerType
  <2>4. ASSUME NEW c \in Clients, AcquirePermit(c) PROVE LateFailuresRunOut
    BY <2>2, <2>4 DEF AcquirePermit, Stages, breakerVars, Inv, BreakerType
  <2>5. ASSUME NEW c \in Clients, QueueTimeout(c) PROVE LateFailuresRunOut
    BY <2>2, <2>5 DEF QueueTimeout, Stages, breakerVars, Inv, BreakerType
  <2>6. ASSUME NEW c \in Clients, AllowRequest(c) PROVE LateFailuresRunOut
    <3>1. /\ Goto(c, "leaving") \/ Goto(c, "calling")
          /\ state' = "Open" => state = "Open"
          /\ UNCHANGED <<age, healthy>>
      BY <2>6 DEF AllowRequest
    <3> QED
      BY <2>2, <3>1 DEF Stages, Inv, BreakerType
  <2>7. ASSUME NEW c \in Clients, InnerCall(c) PROVE LateFailuresRunOut
    BY <2>2, <2>7 DEF InnerCall, Stages, breakerVars, Inv, BreakerType
  <2>8. ASSUME NEW c \in Clients, RecordSuccess(c) PROVE LateFailuresRunOut
    <3>1. Goto(c, "leaving") /\ (state' = "Open" => state = "Open") /\ UNCHANGED <<age, healthy>>
      BY <2>8 DEF RecordSuccess
    <3> QED
      BY <2>2, <3>1 DEF Stages, Inv, BreakerType
  <2>9. ASSUME NEW c \in Clients, CountFailure(c) PROVE LateFailuresRunOut
    <3>1. /\ pc[c] = "failed" /\ UNCHANGED <<state, age, healthy>>
          /\ Goto(c, "tripping") \/ Goto(c, "leaving")
      BY <2>9 DEF CountFailure
    <3> QED
      BY <2>2, <3>1 DEF Stages, Inv, BreakerType
  <2>10. ASSUME NEW c \in Clients, Trip(c) PROVE LateFailuresRunOut
    BY <2>2, <2>10 DEF Trip, Stages
  <2>11. ASSUME NEW c \in Clients, ReleasePermit(c) PROVE LateFailuresRunOut
    BY <2>2, <2>11 DEF ReleasePermit, Stages, breakerVars, Inv, BreakerType
  <2>12. CASE Tick
    BY <2>12 DEF Tick, LateFailures, LateFailuresRunOut, Inv, BreakerType
  <2>13. CASE ServerRecovers
    BY <2>13 DEF ServerRecovers
  <2> QED
    BY <2>3, <2>4, <2>5, <2>6, <2>7, <2>8, <2>9, <2>10, <2>11, <2>12, <2>13 DEF Next, Operation
<1>2. QED
  BY <1>1, InvHolds, PTL DEF Spec
-----------------------------------------------------------------------------
(* The limit per client.                                                   *)

(* A client's window has seen the last requests[c] of the accepted         *)
(* requests; those before are at least as old as the window.  The window   *)
(* before was over when this one started and had seen no more than the     *)
(* limit: what came before that is out of every span that ends now.        *)
WindowAges ==
    \A c \in ClientIds :
        /\ c \notin limits => requests[c] = 0
        /\ \A i \in Latest : i > requests[c] => ages[c][i] >= elapsed[c]
        /\ \A i \in Latest : i > requests[c] + requests_per_minute => ages[c][i] = window_size

LimiterInv == LimiterTypeOK /\ WindowAges

LEMMA LimiterLatest ==
    /\ Latest \subseteq Nat /\ 1 \in Latest
    /\ \A i \in Latest : i # 1 => i - 1 \in Latest
  BY RateLimiterAssumption DEF Latest

LEMMA LimiterInitInv ==
    ASSUME LimiterInit
    PROVE  LimiterInv
  <1> USE RateLimiterAssumption
  <1>1. LimiterTypeOK
    BY DEF LimiterInit, LimiterTypeOK
  <1>2. \A c \in ClientIds : /\ requests[c] = 0 /\ elapsed[c] = 0
                             /\ \A i \in Latest : ages[c][i] = window_size
    BY DEF LimiterInit
  <1>3. \A c \in ClientIds : \A i \in Latest : ages[c][i] >= elapsed[c]
    BY <1>2
  <1>4. WindowAges
    BY <1>2, <1>3 DEF WindowAges
  <1> QED
    BY <1>1, <1>4 DEF LimiterInv

(* What check_rate_limit finds: the requests the window has seen, and the  *)
(* ages that go with them.  A new window counts from nothing, and all that *)
(* the one before has not seen is out of its span.                         *)
LEMMA LimiterCounted ==
    ASSUME LimiterInv, NEW c \in ClientIds, NEW fresh \in BOOLEAN,
           fresh <=> c \notin limits \/ elapsed[c] >= window_size,
           NEW found, found = IF fresh THEN 0 ELSE requests[c],
           NEW e, e = IF fresh THEN 0 ELSE elapsed[c]
    PROVE  /\ found \in 0 .. requests_per_minute /\ e \in 0 .. window_size
           /\ ages[c] \in [Latest -> 0 .. window_size]
           /\ \A i \in Latest : i > found => ages[c][i] >= e
           /\ \A i \in Latest : i > found + requests_per_minute => ages[c][i] = window_size
  <1> USE LimiterLatest, RateLimiterAssumption
  <1>1. /\ requests[c] \in 0 .. requests_per_minute /\ elapsed[c] \in 0 .. window_size
        /\ ages[c] \in [Latest -> 0 .. window_size]
    BY DEF LimiterInv, LimiterTypeOK
  <1>2. /\ c \notin limits => requests[c] = 0
        /\ \A i \in Latest : i > requests[c] => ages[c][i] >= elapsed[c]
        /\ \A i \in Latest : i > requests[c] + requests_per_minute => ages[c][i] = window_size
    BY DEF LimiterInv, WindowAges
  <1>3. \A i \in Latest : ages[c][i] \in 0 .. window_size /\ i \in Nat
    BY <1>1
  <1>4. CASE c \notin limits \/ ~fresh
    BY <1>1, <1>2, <1>3, <1>4
  <1>5. CASE c \in limits /\ elapsed[c] >= window_size
    <2>1. \A i \in Latest : i > requests[c] => ages[c][i] = window_size
      BY <1>1, <1>2, <1>3, <1>5
    <2> QED
      BY <1>1, <1>3, <1>5, <2>1
  <1> QED
    BY <1>4, <1>5

LEMMA LimiterCheck ==
    ASSUME LimiterInv, NEW c \in ClientIds, CheckRateLimit(c)
    PROVE  LimiterInv'
  <1> USE LimiterLatest, RateLimiterAssumption
  <1> DEFINE fresh == c \notin limits \/ elapsed[c] >= window_size
             found == IF fresh THEN 0 ELSE requests[c]
             e == IF fresh THEN 0 ELSE elapsed[c]
             granted == found < requests_per_minute /\ burst_size > 0
  <1>1. /\ found \in 0 .. requests_per_minute /\ e \in 0 .. window_size
        /\ ages[c] \in [Latest -> 0 .. window_size]
        /\ \A i \in Latest : i > found => ages[c][i] >= e
        /\ \A i \in Latest : i > found + requests_per_minute => ages[c][i] = window_size
    BY LimiterCounted, ZenonT(30)
  <1>2. /\ limits' = limits \cup {c}
        /\ elapsed' = [elapsed EXCEPT ![c] = e]
        /\ requests' = [requests EXCEPT ![c] = IF granted THEN found + 1 ELSE found]
        /\ ages' = IF granted THEN [ages EXCEPT ![c] = Accepted(c)] ELSE ages
    BY DEF CheckRateLimit
  <1> HIDE DEF fresh, found, e
  <1>3. /\ Accepted(c) \in [Latest -> 0 .. window_size]
        /\ \A i \in Latest : i > found + 1 => Accepted(c)[i] >= e
        /\ \A i \in Latest : i > found + 1 + requests_per_minute =>
              Accepted(c)[i] = window_size
    <2>1. ASSUME NEW i \in Latest, i # 1
          PROVE  Accepted(c)[i] = ages[c][i - 1] /\ i - 1 \in Latest /\ i \in Nat
      BY <2>1, ZenonT(30) DEF Accepted
    <2>2. Accepted(c)[1] = 0
      BY DEF Accepted
    <2>3. Accepted(c) \in [Latest -> 0 .. window_size]
      BY <1>1, <2>1, <2>2 DEF Accepted
    <2>4. ASSUME NEW i \in Latest, i > found + 1
          PROVE  Accepted(c)[i] >= e
      <3>1. i # 1 /\ i - 1 > found
        BY <1>1, <2>4
      <3> QED
        BY <1>1, <2>1, <3>1
    <2>5. ASSUME NEW i \in Latest, i > found + 1 + requests_per_minute
          PROVE  Accepted(c)[i] = window_size
      <3>1. i # 1 /\ i - 1 > found + requests_per_minute
        BY <1>1, <2>5
      <3> QED
        BY <1>1, <2>1, <3>1
    <2> QED
      BY <2>3, <2>4, <2>5
  <1>4. LimiterTypeOK'
    BY <1>1, <1>2, <1>3 DEF LimiterInv, LimiterTypeOK
  <1>5. /\ requests'[c] = IF granted THEN found + 1 ELSE found
        /\ elapsed'[c] = e /\ ages'[c] = IF granted THEN Accepted(c) ELSE ages[c]
        /\ \A d \in ClientIds : d # c => /\ requests'[d] = requests[d] /\ elapsed'[d] = elapsed[d]
                                         /\ ages'[d] = ages[d]
    BY <1>2 DEF LimiterInv, LimiterTypeOK
  <1>6. WindowAges'
    BY <1>1, <1>2, <1>3, <1>5 DEF LimiterInv, WindowAges
  <1> QED
    BY <1>4, <1>6 DEF LimiterInv

LEMMA LimiterCleanup ==
    ASSUME LimiterInv, CleanupExpiredLimits
    PROVE  LimiterInv'
  <1> USE LimiterLatest, RateLimiterAssumption
  <1>1. LimiterTypeOK'
    BY DEF LimiterInv, LimiterTypeOK, CleanupExpiredLimits
  <1>2. ASSUME NEW c \in ClientIds, c \in limits /\ elapsed[c] >= window_size
        PROVE  \A i \in Latest : i > requests_per_minute => ages[c][i] = window_size
    <2>1. /\ requests[c] \in 0 .. requests_per_minute /\ elapsed[c] \in 0 .. window_size
          /\ \A i \in Latest : ages[c][i] \in 0 .. window_size /\ i \in Nat
      BY DEF LimiterInv, LimiterTypeOK
    <2>2. \A i \in Latest : i > requests[c] => ages[c][i] >= elapsed[c]
      BY DEF LimiterInv, WindowAges
    <2> QED
      BY <1>2, <2>1, <2>2
  <1>3. WindowAges'
    BY <1>1, <1>2 DEF LimiterInv, LimiterTypeOK, WindowAges, CleanupExpiredLimits
  <1> QED
    BY <1>1, <1>3 DEF LimiterInv

LEMMA LimiterTickInv ==
    ASSUME LimiterInv, LimiterTick
    PROVE  LimiterInv'
  <1> USE LimiterLatest, RateLimiterAssumption
  <1>1. LimiterTypeOK'
    BY DEF LimiterInv, LimiterTypeOK, LimiterTick
  <1>2. WindowAges'
    BY DEF LimiterInv, LimiterTypeOK, WindowAges, LimiterTick
  <1> QED
    BY <1>1, <1>2 DEF LimiterInv

LEMMA LimiterInvHolds ==
    LimiterSpec => []LimiterInv
  <1>1. LimiterInv /\ [LimiterNext]_limiterVars => LimiterInv'
    <2>1. ASSUME LimiterInv, UNCHANGED limiterVars PROVE LimiterInv'
      BY <2>1 DEF limiterVars, LimiterInv, LimiterTypeOK, WindowAges
    <2> QED
      BY <2>1, LimiterCheck, LimiterCleanup, LimiterTickInv DEF LimiterNext
  <1> QED
    BY LimiterInitInv, <1>1, PTL DEF LimiterSpec

(* Every variable of the limiter keeps its type.                           *)
THEOREM LimiterTypeCorrect ==
    LimiterSpec => []LimiterTypeOK
  <1>1. LimiterInv => LimiterTypeOK
    BY DEF LimiterInv
  <1> QED
    BY LimiterInvHolds, <1>1, PTL

(* check_rate_limit lets no span of window_size see more than twice the    *)
(* limit, wherever windows start and whenever entries are cleaned up.      *)
THEOREM SpansAreBounded ==
    LimiterSpec => []TwiceTheLimit
  <1>1. LimiterInv => TwiceTheLimit
    <2> SUFFICES ASSUME LimiterInv, NEW c \in ClientIds
                 PROVE  ages[c][2 * requests_per_minute + 1] = window_size
      BY DEF TwiceTheLimit
    <2>1. /\ 2 * requests_per_minute + 1 \in Latest
          /\ 2 * requests_per_minute + 1 > requests[c] + requests_per_minute
      BY RateLimiterAssumption DEF Latest, LimiterInv, LimiterTypeOK
    <2> QED
      BY <2>1 DEF LimiterInv, WindowAges
  <1> QED
    BY LimiterInvHolds, <1>1, PTL
-----------------------------------------------------------------------------
(* The lockout.                                                            *)

LoginStages == {"idle", "find", "unlock", "count", "lock", "reset"}

(* The type of the rows and of the logins; a login that is about to lock   *)
(* the row has counted enough failures.                                    *)
LoginInv ==
    /\ attempts \in [Users -> Nat]
    /\ locked \in [Users -> Nat \cup {NotLocked}]
    /\ login \in [Logins -> LoginStages]
    /\ user \in [Logins -> Users]
    /\ right \in [Logins -> BOOLEAN]
    /\ counted \in [Logins -> Nat]
    /\ cuts \in Nat
    /\ \A l \in Logins : login[l] = "lock" => counted[l] >= max_failed_attempts
    /\ LockAndCountAgree

LEMMA LoginInit ==
    ASSUME UsersInit
    PROVE  LoginInv
  BY UserAccountsAssumption DEF UsersInit, LoginInv, LoginStages, LockAndCountAgree,
         NotLocked

LEMMA LoginStep ==
    ASSUME LoginInv, [UsersNext]_usersVars
    PROVE  LoginInv'
  <1> USE UserAccountsAssumption DEF LoginInv, LoginStages, LockAndCountAgree,
              NotLocked, rowVars
  <1>1. ASSUME NEW u \in Users, RegisterUser(u) PROVE LoginInv'
    BY <1>1 DEF RegisterUser
  <1>2. ASSUME NEW l \in Logins, NEW u \in Users, NEW r \in BOOLEAN, Login(l, u, r)
        PROVE  LoginInv'
    BY <1>2 DEF Login
  <1>3. ASSUME NEW l \in Logins, FindByUsername(l) PROVE LoginInv'
    BY <1>3 DEF FindByUsername, Verified
  <1>4. ASSUME NEW l \in Logins, Unlock(l) PROVE LoginInv'
    BY <1>4 DEF Unlock, Verified
  <1>5. ASSUME NEW l \in Logins, CountFailedLogin(l) PROVE LoginInv'
    BY <1>5 DEF CountFailedLogin
  <1>6. ASSUME NEW l \in Logins, Lock(l) PROVE LoginInv'
    BY <1>6 DEF Lock
  <1>7. ASSUME NEW l \in Logins, ResetAndReturn(l) PROVE LoginInv'
    BY <1>7 DEF ResetAndReturn
  <1>8. ASSUME NEW l \in Logins, Cut(l) PROVE LoginInv'
    BY <1>8 DEF Cut
  <1>9. CASE UsersTick
    BY <1>9 DEF UsersTick
  <1>10. CASE UNCHANGED usersVars
    BY <1>10 DEF usersVars
  <1> HIDE DEF LoginInv
  <1> QED
    BY <1>1, <1>2, <1>3, <1>4, <1>5, <1>6, <1>7, <1>8, <1>9, <1>10 DEF UsersNext, Step

(* AuthService::login counts a failure and locks the row in two            *)
(* statements: whatever the other logins of the user do in between, a row  *)
(* that is locked has counted enough failures, and one that has is locked  *)
(* or about to be, unless a call was cut short.                            *)
THEOREM LocksFollowFailures ==
    UsersSpec => []LockAndCountAgree
  <1>1. LoginInv => LockAndCountAgree
    BY DEF LoginInv
  <1> QED
    BY <1>1, LoginInit, LoginStep, PTL DEF UsersSpec

(* The rows of users who are not registered, and the logins that found one. *)
RowsInv ==
    /\ registered \subseteq Users
    /\ \A u \in Users \ registered : attempts[u] = 0 /\ locked[u] = NotLocked
    /\ \A l \in Logins : login[l] \notin {"idle", "find"} => user[l] \in registered

LEMMA RowsStep ==
    ASSUME LoginInv, RowsInv, [UsersNext]_usersVars
    PROVE  RowsInv'
  <1>0. /\ attempts \in [Users -> Nat] /\ locked \in [Users -> Nat \cup {NotLocked}]
        /\ login \in [Logins -> LoginStages] /\ user \in [Logins -> Users]
    BY DEF LoginInv
  <1>1. ASSUME NEW l \in Logins, user[l] \in registered, NEW n, NEW t, NEW s,
               \/ attempts' = [attempts EXCEPT ![user[l]] = n]
               \/ UNCHANGED attempts,
               \/ locked' = [locked EXCEPT ![user[l]] = t]
               \/ UNCHANGED locked,
               login' = [login EXCEPT ![l] = s], UNCHANGED <<registered, user>>
        PROVE  RowsInv'
    <2>1. \A u \in Users \ registered : attempts'[u] = attempts[u] /\ locked'[u] = locked[u]
      BY <1>0, <1>1
    <2>2. \A m \in Logins : m # l => login'[m] = login[m]
      BY <1>0, <1>1
    <2> QED
      BY <1>1, <2>1, <2>2 DEF RowsInv
  <1>2. ASSUME NEW u \in Users, RegisterUser(u) PROVE RowsInv'
    BY <1>2 DEF RegisterUser, RowsInv
  <1>3. ASSUME NEW l \in Logins, NEW u \in Users, NEW r \in BOOLEAN, Login(l, u, r)
        PROVE  RowsInv'
    BY <1>0, <1>3 DEF Login, RowsInv, rowVars
  <1>4. ASSUME NEW l \in Logins, FindByUsername(l) PROVE RowsInv'
    <2>1. CASE user[l] \in registered
      BY <1>1, <1>4, <2>1, ZenonT(30) DEF FindByUsername, rowVars
    <2>2. CASE user[l] \notin registered
      BY <1>0, <1>4, <2>2 DEF FindByUsername, rowVars, RowsInv
    <2> QED
      BY <2>1, <2>2
  <1>5. ASSUME NEW l \in Logins, login[l] \in {"unlock", "count", "lock", "reset"}
        PROVE  user[l] \in registered
    BY <1>5 DEF RowsInv
  <1>6. ASSUME NEW l \in Logins, Unlock(l) PROVE RowsInv'
    BY <1>1, <1>5, <1>6, ZenonT(30) DEF Unlock
  <1>7. ASSUME NEW l \in Logins, CountFailedLogin(l) PROVE RowsInv'
    BY <1>0, <1>1, <1>5, <1>7, ZenonT(30) DEF CountFailedLogin
  <1>8. ASSUME NEW l \in Logins, Lock(l) PROVE RowsInv'
    BY <1>1, <1>5, <1>8, ZenonT(30) DEF Lock
  <1>9. ASSUME NEW l \in Logins, ResetAndReturn(l) PROVE RowsInv'
    BY <1>1, <1>5, <1>9, ZenonT(30) DEF ResetAndReturn
  <1>10. ASSUME NEW l \in Logins, Cut(l) PROVE RowsInv'
    BY <1>0, <1>10 DEF Cut, RowsInv, rowVars
  <1>11. CASE UsersTick
    BY <1>0, <1>11 DEF UsersTick, RowsInv, NotLocked
  <1>12. CASE UNCHANGED usersVars
    BY <1>12 DEF usersVars, rowVars, RowsInv
  <1> QED
    BY <1>2, <1>3, <1>4, <1>6, <1>7, <1>8, <1>9, <1>10, <1>11, <1>12 DEF UsersNext, Step

(* The types of the rows and of the logins.                                *)
UsersTypeOK ==
    /\ registered \subseteq Users
    /\ attempts \in [Users -> Nat]
    /\ locked \in [Users -> Nat \cup {NotLocked}]
    /\ login \in [Logins -> LoginStages]
    /\ user \in [Logins -> Users]
    /\ right \in [Logins -> BOOLEAN]
    /\ counted \in [Logins -> Nat]
    /\ cuts \in Nat

(* Every variable keeps its type, and AuthService::login writes to no row  *)
(* that find_by_username has not found: a user who registers starts with   *)
(* no failures and no lock, whoever tried the name before.                 *)
THEOREM NewUsersAreUnlocked ==
    UsersSpec => [](UsersTypeOK /\ \A u \in Users \ registered :
                                      attempts[u] = 0 /\ locked[u] = NotLocked)
  <1>1. UsersInit => LoginInv /\ RowsInv
    BY LoginInit DEF UsersInit, RowsInv
  <1>2. LoginInv /\ RowsInv /\ [UsersNext]_usersVars => (LoginInv /\ RowsInv)'
    BY LoginStep, RowsStep
  <1>3. LoginInv /\ RowsInv => UsersTypeOK /\ \A u \in Users \ registered :
                                   attempts[u] = 0 /\ locked[u] = NotLocked
    BY DEF LoginInv, RowsInv, UsersTypeOK
  <1> QED
    BY <1>1, <1>2, <1>3, PTL DEF UsersSpec

(* Statements a login has ahead of it.                                     *)
StatementsLeft(stage) ==
    CASE stage = "find" -> 4
      [] stage = "unlock" -> 3
      [] stage \in {"count", "reset"} -> 2
      [] stage = "lock" -> 1
      [] stage = "idle" -> 0

(* Each statement of a login brings it nearer to its answer, and neither   *)
(* another login nor the clock takes it back.                              *)
LoginsComeNearer ==
    \A l \in Logins :
        /\ Step(l) => StatementsLeft(login'[l]) < StatementsLeft(login[l])
        /\ login[l] # "idle" => \/ StatementsLeft(login'[l]) < StatementsLeft(login[l])
                                \/ login'[l] = login[l] /\ user'[l] = user[l] /\ right'[l] = right[l]

(* AuthService::login is answered after at most four statements, however   *)
(* the logins of one user interleave: none of them makes another look at   *)
(* the row again.                                                          *)
THEOREM LoginsAreFinite == UsersSpec => [][LoginsComeNearer]_usersVars
  <1>1. LoginInv /\ [UsersNext]_usersVars => [LoginsComeNearer]_usersVars
    <2> SUFFICES ASSUME LoginInv, UsersNext, NEW l \in Logins
                 PROVE  /\ Step(l) => StatementsLeft(login'[l]) < StatementsLeft(login[l])
                        /\ login[l] # "idle" =>
                              \/ StatementsLeft(login'[l]) < StatementsLeft(login[l])
                              \/ login'[l] = login[l] /\ user'[l] = user[l] /\ right'[l] = right[l]
      BY DEF LoginsComeNearer
    <2>0. /\ login \in [Logins -> LoginStages] /\ user \in [Logins -> Users]
          /\ right \in [Logins -> BOOLEAN]
      BY DEF LoginInv
    <2>1. ASSUME NEW m \in Logins, Step(m)
          PROVE  /\ StatementsLeft(login'[m]) < StatementsLeft(login[m])
                 /\ \A k \in Logins \ {m} : login'[k] = login[k]
                 /\ UNCHANGED <<user, right>>
      <3>1. PICK s \in LoginStages :
               /\ login' = [login EXCEPT ![m] = s] /\ UNCHANGED <<user, right>>
               /\ <<login[m], s>> \in {<<"find", "idle">>, <<"find", "unlock">>, <<"find", "reset">>,
                     <<"find", "count">>, <<"unlock", "reset">>, <<"unlock", "count">>,
                     <<"count", "lock">>, <<"count", "idle">>, <<"lock", "idle">>, <<"reset", "idle">>}
        <4>1. CASE FindByUsername(m)
          BY <4>1, ZenonT(30) DEF FindByUsername, Verified, LoginStages
        <4>2. CASE Unlock(m)
          BY <4>2, ZenonT(30) DEF Unlock, Verified, LoginStages
        <4>3. CASE CountFailedLogin(m)
          BY <4>3 DEF CountFailedLogin, LoginStages
        <4>4. CASE Lock(m) \/ ResetAndReturn(m)
          BY <4>4 DEF Lock, ResetAndReturn, LoginStages
        <4> QED
          BY <2>1, <4>1, <4>2, <4>3, <4>4 DEF Step
      <3>2. login'[m] = s /\ \A k \in Logins \ {m} : login'[k] = login[k]
        BY <2>0, <3>1
      <3>3. StatementsLeft(s) < StatementsLeft(login[m])
        BY <3>1 DEF StatementsLeft
      <3> QED
        BY <3>1, <3>2, <3>3
    <2>2. ASSUME NEW m \in Logins, NEW u \in Users, NEW r \in BOOLEAN, Login(m, u, r), login[l] # "idle"
          PROVE  login'[l] = login[l] /\ user'[l] = user[l] /\ right'[l] = right[l]
      BY <2>0, <2>2 DEF Login
    <2>3. ASSUME NEW m \in Logins, Cut(m), login[l] # "idle"
          PROVE  \/ StatementsLeft(login'[l]) < StatementsLeft(login[l])
                 \/ login'[l] = login[l] /\ user'[l] = user[l] /\ right'[l] = right[l]
      <3>1. UNCHANGED <<user, right>> /\ login'[l] \in {login[l], "idle"}
        BY <2>0, <2>3 DEF Cut
      <3>2. StatementsLeft("idle") < StatementsLeft(login[l])
        BY <2>0, <2>3 DEF LoginStages, StatementsLeft
      <3> QED
        BY <3>1, <3>2
    <2>4. ASSUME UsersTick \/ \E u \in Users : RegisterUser(u)
          PROVE  UNCHANGED <<login, user, right>>
      BY <2>4 DEF UsersTick, RegisterUser
    <2>5. ASSUME login[l] # "idle"
          PROVE  \/ StatementsLeft(login'[l]) < StatementsLeft(login[l])
                 \/ login'[l] = login[l] /\ user'[l] = user[l] /\ right'[l] = right[l]
      BY <2>1, <2>2, <2>3, <2>4, <2>5 DEF UsersNext
    <2> QED
      BY <2>1, <2>5
  <1> QED
    BY <1>1, LoginInit, LoginStep, PTL DEF UsersSpec
-----------------------------------------------------------------------------
(* The snapshots.                                                          *)

(* What is written or about to be written is a prefix of the history.      *)
Prefixes ==
    \A a \in Aggregates :
        /\ snapshots[a] =< version[a]
        /\ \A w \in Workers : read[w][a] =< version[a]

(* With one instance nobody writes between the query of a run and the      *)
(* writes of its tasks: each is still about a newer snapshot.              *)
TasksAhead ==
    \A w \in Workers : running = {w} => \A a \in Aggregates :
        /\ task[w][a] = "fetch" => snapshots[a] < version[a]
        /\ task[w][a] = "save" => snapshots[a] < read[w][a]
        /\ task[w][a] = "cache" => read[w][a] = snapshots[a]
        /\ cache[w][a] =< snapshots[a]

SnapInv == SnapshotsTypeOK /\ Prefixes /\ TasksAhead

LEMMA SnapInit == SnapshotsInit => SnapInv
BY DEF SnapshotsInit, SnapInv, SnapshotsTypeOK, Prefixes, TasksAhead

(* A step of an instance that runs, or a save of the event store.          *)
LEMMA AppendInv ==
    ASSUME SnapInv, NEW a \in Aggregates, AppendEvent(a), UNCHANGED running
    PROVE  SnapInv'
<1>1. /\ version' = [version EXCEPT ![a] = @ + 1]
      /\ UNCHANGED <<snapshots, task, read, cache, expired, removing, running>>
  BY DEF AppendEvent
<1>2. \A b \in Aggregates : version'[b] \in Nat /\ version[b] =< version'[b]
  BY <1>1 DEF SnapInv, SnapshotsTypeOK
<1>3. SnapshotsTypeOK'
  BY <1>1 DEF SnapInv, SnapshotsTypeOK
<1>4. Prefixes'
  BY <1>1, <1>2 DEF SnapInv, SnapshotsTypeOK, Prefixes
<1>5. TasksAhead'
  BY <1>1, <1>2 DEF SnapInv, SnapshotsTypeOK, TasksAhead
<1>6. QED
  BY <1>3, <1>4, <1>5 DEF SnapInv

LEMMA WorkerInv ==
    ASSUME SnapInv, NEW w \in running, SnapshotWorker(w), UNCHANGED running
    PROVE  SnapInv'
<1>1. w \in Workers
  BY DEF SnapInv, SnapshotsTypeOK
<1>2. PICK s \in Selections :
         task' = [task EXCEPT ![w] = [a \in Aggregates |-> IF a \in s THEN "fetch" ELSE "none"]]
  BY DEF SnapshotWorker
<1>3. \A a \in s : a \in Aggregates /\ snapshots[a] < version[a]
  BY <1>2 DEF Selections, Candidates, SnapInv, SnapshotsTypeOK
<1>4. UNCHANGED <<version, snapshots, read, cache, expired, removing, running>>
  BY DEF SnapshotWorker
<1>5. SnapshotsTypeOK'
  BY <1>1, <1>2, <1>4 DEF SnapInv, SnapshotsTypeOK
<1>6. Prefixes'
  BY <1>4 DEF SnapInv, Prefixes
<1>7. TasksAhead'
  BY <1>1, <1>2, <1>3, <1>4 DEF SnapInv, SnapshotsTypeOK, TasksAhead
<1>8. QED
  BY <1>5, <1>6, <1>7 DEF SnapInv

LEMMA FetchInv ==
    ASSUME SnapInv, NEW w \in running, NEW a \in Aggregates,
           FetchEvents(w, a), UNCHANGED running
    PROVE  SnapInv'
<1>1. w \in Workers
  BY DEF SnapInv, SnapshotsTypeOK
<1>2. SnapshotsTypeOK'
  BY <1>1 DEF SnapInv, SnapshotsTypeOK, FetchEvents
<1>3. Prefixes'
  BY <1>1 DEF SnapInv, SnapshotsTypeOK, Prefixes, FetchEvents
<1>4. TasksAhead'
  BY <1>1 DEF SnapInv, SnapshotsTypeOK, TasksAhead, FetchEvents
<1>5. QED
  BY <1>2, <1>3, <1>4 DEF SnapInv

LEMMA SaveInv ==
    ASSUME SnapInv, NEW w \in running, NEW a \in Aggregates,
           SaveSnapshot(w, a), UNCHANGED running
    PROVE  SnapInv'
<1>1. w \in Workers /\ \A v : running = {v} => v = w
  BY DEF SnapInv, SnapshotsTypeOK
<1>2. CASE /\ snapshots' = [snapshots EXCEPT ![a] = read[w][a]]
           /\ task' = [task EXCEPT ![w][a] = "cache"]
           /\ UNCHANGED <<read, version, cache, expired, removing>>
  <2>1. SnapshotsTypeOK'
    BY <1>1, <1>2 DEF SnapInv, SnapshotsTypeOK
  <2>2. Prefixes'
    BY <1>1, <1>2 DEF SnapInv, SnapshotsTypeOK, Prefixes
  <2>3. TasksAhead'
    <3> SUFFICES ASSUME running = {w}, NEW b \in Aggregates
                 PROVE  /\ task'[w][b] = "fetch" => snapshots'[b] < version'[b]
                        /\ task'[w][b] = "save" => snapshots'[b] < read'[w][b]
                        /\ task'[w][b] = "cache" => read'[w][b] = snapshots'[b]
                        /\ cache'[w][b] =< snapshots'[b]
      BY <1>1 DEF TasksAhead
    <3>1. task[w][a] = "save"
      BY DEF SaveSnapshot
    <3>2. snapshots[a] < read[w][a] /\ cache[w][a] =< snapshots[a]
      BY <1>1, <3>1 DEF SnapInv, TasksAhead
    <3>3. CASE b = a
      BY <1>1, <1>2, <3>2, <3>3 DEF SnapInv, SnapshotsTypeOK
    <3>4. CASE b # a
      BY <1>1, <1>2, <3>4 DEF SnapInv, SnapshotsTypeOK, TasksAhead
    <3>5. QED
      BY <3>3, <3>4
  <2>4. QED
    BY <2>1, <2>2, <2>3 DEF SnapInv
<1>3. CASE /\ task' = [task EXCEPT ![w][a] = "none"]
           /\ read' = [read EXCEPT ![w][a] = 0]
           /\ UNCHANGED <<snapshots, version, cache, expired, removing>>
  <2>1. SnapshotsTypeOK'
    BY <1>1, <1>3 DEF SnapInv, SnapshotsTypeOK
  <2>2. Prefixes'
    BY <1>1, <1>3 DEF SnapInv, SnapshotsTypeOK, Prefixes
  <2>3. TasksAhead'
    BY <1>1, <1>3 DEF SnapInv, SnapshotsTypeOK, TasksAhead
  <2>4. QED
    BY <2>1, <2>2, <2>3 DEF SnapInv
<1>4. QED
  BY <1>2, <1>3 DEF SaveSnapshot

LEMMA CacheInv ==
    ASSUME SnapInv, NEW w \in running, NEW a \in Aggregates,
           CacheSnapshot(w, a), UNCHANGED running
    PROVE  SnapInv'
<1>1. w \in Workers
  BY DEF SnapInv, SnapshotsTypeOK
<1>2. SnapshotsTypeOK'
  BY <1>1 DEF SnapInv, SnapshotsTypeOK, CacheSnapshot
<1>3. Prefixes'
  BY <1>1 DEF SnapInv, SnapshotsTypeOK, Prefixes, CacheSnapshot
<1>4. TasksAhead'
  BY <1>1 DEF SnapInv, SnapshotsTypeOK, TasksAhead, CacheSnapshot
<1>5. QED
  BY <1>2, <1>3, <1>4 DEF SnapInv

(* Expiry and cleanup only take entries out of a cache.                    *)
LEMMA ExpiryInv ==
    ASSUME SnapInv, NEW w \in running, UNCHANGED running,
           \/ CollectExpired(w) \/ RemoveExpired(w)
           \/ \E a \in Aggregates : Expire(w, a)
    PROVE  SnapInv'
<1>1. w \in Workers
  BY DEF SnapInv, SnapshotsTypeOK
<1>2. CASE CollectExpired(w)
  BY <1>1, <1>2, SMTT(30) DEF SnapInv, SnapshotsTypeOK, Prefixes, TasksAhead, CollectExpired
<1>3. CASE RemoveExpired(w)
  <2>1. cache' \in [Workers -> [Aggregates -> Nat]]
    BY <1>1, <1>3 DEF SnapInv, SnapshotsTypeOK, RemoveExpired
  <2>2. SnapshotsTypeOK'
    BY <1>1, <1>3, <2>1 DEF SnapInv, SnapshotsTypeOK, RemoveExpired
  <2>3. Prefixes'
    BY <1>3 DEF SnapInv, Prefixes, RemoveExpired
  <2>4. \A v \in Workers, a \in Aggregates : cache'[v][a] = cache[v][a] \/ cache'[v][a] = 0
    BY <1>1, <1>3 DEF SnapInv, SnapshotsTypeOK, RemoveExpired
  <2>5. TasksAhead'
    BY <1>3, <2>4, SMTT(40) DEF SnapInv, SnapshotsTypeOK, TasksAhead, RemoveExpired
  <2>6. QED
    BY <2>2, <2>3, <2>5 DEF SnapInv
<1>4. CASE \E a \in Aggregates : Expire(w, a)
  <2>1. PICK a \in Aggregates : Expire(w, a)
    BY <1>4
  <2>2. SnapshotsTypeOK'
    BY <1>1, <2>1 DEF SnapInv, SnapshotsTypeOK, Expire
  <2>3. Prefixes' /\ TasksAhead'
    BY <2>1 DEF SnapInv, Prefixes, TasksAhead, Expire
  <2>4. QED
    BY <2>2, <2>3 DEF SnapInv
<1>5. QED
  BY <1>2, <1>3, <1>4

LEMMA SnapInvHolds == SnapshotsSpec => []SnapInv
<1>1. SnapInv /\ [SnapshotsNext]_snapshotsVars => SnapInv'
  <2> SUFFICES ASSUME SnapInv, [SnapshotsNext]_snapshotsVars PROVE SnapInv'
    OBVIOUS
  <2>1. CASE SnapshotsNext
    <3>1. UNCHANGED running
      BY <2>1 DEF SnapshotsNext
    <3>2. CASE \E a \in Aggregates : AppendEvent(a)
      BY <3>1, <3>2, AppendInv
    <3>3. CASE \E w \in running : SnapshotWorker(w)
      BY <3>1, <3>3, WorkerInv
    <3>4. CASE \E w \in running, a \in Aggregates : CreateSnapshot(w, a)
      BY <3>1, <3>4, FetchInv, SaveInv, CacheInv DEF CreateSnapshot
    <3>5. CASE \E w \in running : \/ CollectExpired(w) \/ RemoveExpired(w)
                                  \/ \E a \in Aggregates : Expire(w, a)
      BY <3>1, <3>5, ExpiryInv
    <3>6. QED
      BY <2>1, <3>2, <3>3, <3>4, <3>5 DEF SnapshotsNext
  <2>2. CASE UNCHANGED snapshotsVars
    BY <2>2, SMTT(30) DEF snapshotsVars, SnapInv, SnapshotsTypeOK, Prefixes, TasksAhead
  <2>3. QED
    BY <2>1, <2>2
<1>2. QED
  BY SnapInit, <1>1, PTL DEF SnapshotsSpec

(* Every variable keeps its type (snapshot_worker, cache_cleanup_worker).  *)
THEOREM SnapshotsTypeCorrect == SnapshotsSpec => []SnapshotsTypeOK
<1>1. SnapInv => SnapshotsTypeOK
  BY DEF SnapInv
<1>2. QED
  BY SnapInvHolds, <1>1, PTL

(* No snapshot is ahead of the history it was made of, and what the only   *)
(* instance caches is not ahead of the table.                              *)
THEOREM CachesAreNotAhead == SnapshotsSpec => []CacheNotAhead
<1>1. SnapInv => CacheNotAhead
  BY DEF SnapInv, Prefixes, TasksAhead, CacheNotAhead
<1>2. QED
  BY SnapInvHolds, <1>1, PTL

(* The upsert of create_snapshot, by the only instance that runs, always   *)
(* replaces an older snapshot.                                             *)
THEOREM SnapshotsOnlyAdvance == SnapshotsSpec => SnapshotsAdvance
<1> DEFINE Advance ==
      \A w \in Workers, a \in Aggregates :
          running = {w} /\ task[w][a] = "save" /\ task'[w][a] = "cache"
              => snapshots'[a] > snapshots[a]
<1>1. SnapInv /\ [SnapshotsNext]_snapshotsVars => [Advance]_snapshotsVars
  <2> SUFFICES ASSUME SnapInv, SnapshotsNext, NEW w \in Workers, NEW a \in Aggregates,
                      running = {w}, task[w][a] = "save", task'[w][a] = "cache"
               PROVE  snapshots'[a] > snapshots[a]
    OBVIOUS
  <2>1. snapshots[a] < read[w][a]
    BY DEF SnapInv, TasksAhead
  <2>2. snapshots' = [snapshots EXCEPT ![a] = read[w][a]]
    <3>1. CASE \E b \in Aggregates : SaveSnapshot(w, b)
      <4>1. PICK b \in Aggregates : SaveSnapshot(w, b)
        BY <3>1
      <4>2. b = a
        BY <4>1 DEF SaveSnapshot, SnapInv, SnapshotsTypeOK
      <4>3. task' # [task EXCEPT ![w][a] = "none"]
        BY DEF SnapInv, SnapshotsTypeOK
      <4>4. QED
        BY <4>1, <4>2, <4>3 DEF SaveSnapshot
    <3>2. CASE \E b \in Aggregates : FetchEvents(w, b)
      BY <3>2 DEF FetchEvents, SnapInv, SnapshotsTypeOK
    <3>3. CASE \E b \in Aggregates : CacheSnapshot(w, b)
      BY <3>3 DEF CacheSnapshot, SnapInv, SnapshotsTypeOK
    <3>4. CASE SnapshotWorker(w)
      BY <3>4 DEF SnapshotWorker, SnapInv, SnapshotsTypeOK
    <3>5. CASE \/ \E b \in Aggregates : AppendEvent(b) \/ Expire(w, b)
               \/ CollectExpired(w) \/ RemoveExpired(w)
      BY <3>5 DEF AppendEvent, Expire, CollectExpired, RemoveExpired
    <3>6. QED
      BY <3>1, <3>2, <3>3, <3>4, <3>5, ZenonT(30) DEF SnapshotsNext, CreateSnapshot
  <2>3. QED
    BY <2>1, <2>2 DEF SnapInv, SnapshotsTypeOK
<1>2. QED
  BY SnapInvHolds, <1>1, PTL DEF SnapshotsSpec, SnapshotsAdvance
-----------------------------------------------------------------------------
(* The life of the process.                                                *)

(* Who owns the handles at each stage of main.  The check leaves "shutdown" *)
(* as the only owner of each of them.                                      *)
OwnersInv ==
    /\ main = "started" => \A b \in Background : owners[b] = {"main"}
    /\ main = "checking_warmup" =>
          \A b \in Background : owners[b] = {"main", "shutdown"}
    /\ main = "checking_l1" =>
          owners["warmup"] = {"shutdown"} /\ owners["l1"] = {"main", "shutdown"}
    /\ main \in {"binding", "serving", "draining", "stopping_l1"} =>
          \A b \in Background : owners[b] = {"shutdown"}
    /\ main \in {"awaiting_l1", "stopping_warmup"} => owners["warmup"] = {"shutdown"}
    /\ main # "panicking"

(* What the steps of the shutdown have achieved so far.                    *)
StoppedInv ==
    /\ main \in {"stopping_l1", "awaiting_l1", "stopping_warmup", "awaiting_warmup",
                 "returning"} => connections = 0
    /\ main \in {"stopping_warmup", "awaiting_warmup", "returning"} => handle["l1"] \in Ended
    /\ main = "returning" => handle["warmup"] \in Ended

LifeInv == ProcessTypeOK /\ OwnersInv /\ StoppedInv

LEMMA LifeInit ==
    ASSUME ProcessInit
    PROVE  LifeInv
  BY LifecycleAssumption DEF ProcessInit, LifeInv, ProcessTypeOK, OwnersInv, StoppedInv,
         MainStages, Background, Ended

LEMMA LifeStep ==
    ASSUME LifeInv, [ProcessNext]_processVars
    PROVE  LifeInv'
  <1> USE LifecycleAssumption DEF LifeInv, ProcessTypeOK, OwnersInv, StoppedInv,
              MainStages, Background, Ended
  <1>1. CASE InitAllServices
    BY <1>1 DEF InitAllServices
  <1>2. CASE CloneContext
    BY <1>2 DEF CloneContext
  <1>3. CASE CheckWarmup
    BY <1>3 DEF CheckWarmup, Check
  <1>4. CASE CheckL1
    BY <1>4 DEF CheckL1, Check
  <1>5. CASE Bind
    BY <1>5 DEF Bind
  <1>6. CASE Drain
    BY <1>6 DEF Drain
  <1>7. CASE StopL1
    BY <1>7 DEF StopL1, Stop
  <1>8. CASE AwaitL1
    BY <1>8 DEF AwaitL1, Await
  <1>9. CASE StopWarmup
    BY <1>9 DEF StopWarmup, Stop
  <1>10. CASE AwaitWarmup
    BY <1>10 DEF AwaitWarmup, Await
  <1>11. CASE DropRuntime
    BY <1>11 DEF DropRuntime
  <1>12. CASE Arrive
    BY <1>12 DEF Arrive
  <1>13. CASE Respond
    BY <1>13 DEF Respond
  <1>14. CASE ShutdownSignal
    BY <1>14 DEF ShutdownSignal, Unguarded
  <1>15. CASE ServerError
    BY <1>15 DEF ServerError
  <1>16. ASSUME NEW b \in Background, TaskEnds(b) PROVE LifeInv'
    BY <1>16 DEF TaskEnds
  <1>17. ASSUME NEW b \in Background, Cancel(b) PROVE LifeInv'
    BY <1>17 DEF Cancel
  <1>18. CASE UNCHANGED processVars
    BY <1>18 DEF processVars
  <1> QED
    BY <1>1, <1>2, <1>3, <1>4, <1>5, <1>6, <1>7, <1>8, <1>9, <1>10, <1>11, <1>12,
       <1>13, <1>14, <1>15, <1>16, <1>17, <1>18, ZenonT(30) DEF ProcessNext, MainStep

(* Every variable keeps its type (main of main.rs, ServiceContext).        *)
THEOREM ProcessTypeCorrect ==
    ProcessSpec => []ProcessTypeOK
  <1>1. LifeInv => ProcessTypeOK
    BY DEF LifeInv
  <1> QED
    BY <1>1, LifeInit, LifeStep, PTL DEF ProcessSpec

(* The unwraps of ServiceContext::shutdown never panic: the check before   *)
(* has dropped the other Arc of each handle.                               *)
THEOREM UnwrapsNeverPanic ==
    ProcessSpec => []UnwrapsSucceed
  <1>1. LifeInv => UnwrapsSucceed
    BY DEF LifeInv, OwnersInv, UnwrapsSucceed
  <1> QED
    BY <1>1, LifeInit, LifeStep, PTL DEF ProcessSpec

(* When main returns after ServiceContext::shutdown, both background tasks *)
(* have ended and the server has closed its connections.                   *)
THEOREM ShutdownLeavesNothing ==
    ProcessSpec => []NothingLeftBehind
  <1>1. LifeInv => NothingLeftBehind
    BY DEF LifeInv, StoppedInv, NothingLeftBehind, Background
  <1> QED
    BY <1>1, LifeInit, LifeStep, PTL DEF ProcessSpec

(* The order main goes through its stages in, and how many are ahead.      *)
StagesAhead(stage) ==
    CASE stage = "starting" -> 12
      [] stage = "started" -> 11
      [] stage = "checking_warmup" -> 10
      [] stage = "checking_l1" -> 9
      [] stage = "binding" -> 8
      [] stage = "serving" -> 7
      [] stage = "draining" -> 6
      [] stage = "stopping_l1" -> 5
      [] stage = "awaiting_l1" -> 4
      [] stage = "stopping_warmup" -> 3
      [] stage = "awaiting_warmup" -> 2
      [] stage \in {"returning", "failing", "panicking"} -> 1
      [] stage \in {"exited", "killed"} -> 0

(* main goes from stage to later stage; once it does not serve any more no *)
(* connection is added; a task that has ended stays so, and an abort is    *)
(* not taken back.                                                         *)
ProcessAdvances ==
    /\ main' # main => StagesAhead(main') < StagesAhead(main)
    /\ main # "serving" => connections' =< connections
    /\ \A b \in Background : handle[b] \in Ended => handle'[b] = handle[b]
    /\ aborted \subseteq aborted'

FreshInv == main = "starting" => \A b \in Background : handle[b] = "none"

LEMMA ProcessStep ==
    ASSUME LifeInv, FreshInv, ProcessNext
    PROVE  FreshInv' /\ ProcessAdvances
  <1>0. /\ main \in MainStages /\ handle \in [Background -> {"none", "running"} \cup Ended]
        /\ connections \in Nat
    BY LifecycleAssumption DEF LifeInv, ProcessTypeOK
  <1>1. ASSUME NEW to \in MainStages, main' = to, StagesAhead(to) < StagesAhead(main),
               connections' =< connections, UNCHANGED handle, aborted \subseteq aborted'
        PROVE  FreshInv' /\ ProcessAdvances
    <2>1. to # "starting"
      BY <1>0, <1>1 DEF MainStages, StagesAhead
    <2> QED
      BY <1>1, <2>1 DEF FreshInv, ProcessAdvances
  <1>2. CASE InitAllServices
    <2>1. /\ main = "starting" /\ main' \in {"started", "failing"}
          /\ UNCHANGED <<aborted, connections>>
      BY <1>2 DEF InitAllServices
    <2>2. StagesAhead(main') < StagesAhead(main)
      BY <2>1 DEF StagesAhead
    <2>3. \A b \in Background : handle[b] \notin Ended
      BY <2>1 DEF FreshInv, Ended
    <2> QED
      BY <1>0, <2>1, <2>2, <2>3 DEF FreshInv, ProcessAdvances
  <1>3. CASE CloneContext \/ CheckWarmup \/ CheckL1 \/ Bind
    <2>1. /\ UNCHANGED <<handle, aborted, connections>>
          /\ <<main, main'>> \in {<<"started", "checking_warmup">>, <<"checking_warmup", "checking_l1">>,
                <<"checking_warmup", "failing">>, <<"checking_l1", "binding">>,
                <<"checking_l1", "failing">>, <<"binding", "serving">>, <<"binding", "failing">>}
      BY <1>3 DEF CloneContext, CheckWarmup, CheckL1, Check, Bind
    <2>2. main' \in MainStages /\ StagesAhead(main') < StagesAhead(main)
      BY <2>1 DEF MainStages, StagesAhead
    <2> QED
      BY <1>0, <1>1, <2>1, <2>2
  <1>4. CASE Drain \/ AwaitL1 \/ AwaitWarmup \/ ServerError
    <2>1. /\ UNCHANGED <<handle, aborted, connections>>
          /\ <<main, main'>> \in {<<"draining", "stopping_l1">>, <<"awaiting_l1", "stopping_warmup">>,
                <<"awaiting_warmup", "returning">>, <<"serving", "failing">>, <<"draining", "failing">>}
      BY <1>4 DEF Drain, AwaitL1, AwaitWarmup, Await, ServerError
    <2>2. main' \in MainStages /\ StagesAhead(main') < StagesAhead(main)
      BY <2>1 DEF MainStages, StagesAhead
    <2> QED
      BY <1>0, <1>1, <2>1, <2>2
  <1>5. CASE StopL1 \/ StopWarmup
    <2>1. /\ UNCHANGED <<handle, connections>> /\ aborted \subseteq aborted'
          /\ <<main, main'>> \in {<<"stopping_l1", "awaiting_l1">>, <<"stopping_l1", "panicking">>,
                <<"stopping_warmup", "awaiting_warmup">>, <<"stopping_warmup", "panicking">>}
      BY <1>5 DEF StopL1, StopWarmup, Stop
    <2>2. main' \in MainStages /\ StagesAhead(main') < StagesAhead(main)
      BY <2>1 DEF MainStages, StagesAhead
    <2> QED
      BY <1>0, <1>1, <2>1, <2>2
  <1>6. CASE ShutdownSignal
    <2>1. /\ UNCHANGED <<handle, aborted, connections>>
          /\ main' \in MainStages /\ StagesAhead(main') < StagesAhead(main)
      BY <1>6 DEF ShutdownSignal, Unguarded, MainStages, StagesAhead
    <2> QED
      BY <1>0, <1>1, <2>1
  <1>7. CASE DropRuntime
    <2>1. /\ main \in {"returning", "failing", "panicking"} /\ main' = "exited"
          /\ connections' = 0 /\ UNCHANGED aborted
          /\ handle' = [b \in Background |-> IF handle[b] = "running" THEN "cancelled" ELSE handle[b]]
      BY <1>7 DEF DropRuntime
    <2>2. StagesAhead(main') < StagesAhead(main)
      BY <2>1 DEF StagesAhead
    <2>3. \A b \in Background : handle[b] \in Ended => handle'[b] = handle[b]
      BY <2>1 DEF Ended
    <2> QED
      BY <1>0, <2>1, <2>2, <2>3 DEF FreshInv, ProcessAdvances
  <1>8. CASE Arrive
    BY <1>8 DEF Arrive, FreshInv, ProcessAdvances
  <1>9. CASE Respond
    BY <1>0, <1>9 DEF Respond, FreshInv, ProcessAdvances
  <1>10. ASSUME NEW b \in Background, TaskEnds(b) \/ Cancel(b)
         PROVE  FreshInv' /\ ProcessAdvances
    <2>1. /\ handle[b] = "running" /\ \E s : handle' = [handle EXCEPT ![b] = s]
          /\ UNCHANGED <<main, aborted, connections>>
      BY <1>10 DEF TaskEnds, Cancel
    <2>2. main # "starting"
      BY <2>1 DEF FreshInv
    <2>3. \A c \in Background : handle[c] \in Ended => handle'[c] = handle[c]
      BY <1>0, <2>1 DEF Ended
    <2> QED
      BY <1>0, <2>1, <2>2, <2>3 DEF FreshInv, ProcessAdvances
  <1> QED
    BY <1>2, <1>3, <1>4, <1>5, <1>6, <1>7, <1>8, <1>9, <1>10 DEF ProcessNext, MainStep

(* main never goes back to a stage: the start and the shutdown each take a *)
(* bounded number of steps, and what the shutdown waits for - open         *)
(* connections, the two tasks of ServiceContext - only ever gets less.     *)
THEOREM StagesOnlyAdvance == ProcessSpec => [][ProcessAdvances]_processVars
  <1>1. ProcessInit => LifeInv /\ FreshInv
    BY LifeInit DEF ProcessInit, FreshInv
  <1>2. LifeInv /\ FreshInv /\ [ProcessNext]_processVars => (LifeInv /\ FreshInv)'
    <2>1. ASSUME FreshInv, UNCHANGED processVars PROVE FreshInv'
      BY <2>1 DEF processVars, FreshInv
    <2> QED
      BY <2>1, LifeStep, ProcessStep
  <1>3. LifeInv /\ FreshInv /\ [ProcessNext]_processVars => [ProcessAdvances]_processVars
    BY ProcessStep
  <1> QED
    BY <1>1, <1>2, <1>3, PTL DEF ProcessSpec
=============================================================================
