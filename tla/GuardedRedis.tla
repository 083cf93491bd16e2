---------------------------- MODULE GuardedRedis ----------------------------
(***************************************************************************)
(* The two guards that src/src/infrastructure/redis_abstraction.rs puts in *)
(* front of a Redis client: a LoadSheddingRedisClient around a             *)
(* CircuitBreakerRedisClient.  Both wrap any RedisClientTrait, and every   *)
(* operation (get, set, del, get_connection, get_pooled_connection) takes  *)
(* the same path: a permit or a timeout, allow_request, the call itself,   *)
(* record_success or record_failure, and the permit back.                  *)
(*                                                                         *)
(* record_failure counts without the state lock and only then takes it to  *)
(* open the circuit, so other clients run in between.  record_success      *)
(* closes the circuit and resets the count under the lock; a count added   *)
(* between the two is lost, as it is when it is added just before.         *)
(***************************************************************************)
EXTENDS Integers, FiniteSets

CONSTANTS
    Clients,                    \* tasks that use the client
    max_concurrent_requests,    \* LoadShedderConfig
    failure_threshold,          \* CircuitBreakerConfig
    reset_timeout,              \* CircuitBreakerConfig, in ticks
    MaxFailures                 \* bound on the failures counted between resets

ASSUME GuardedRedisAssumption ==
    /\ IsFiniteSet(Clients)
    /\ max_concurrent_requests \in Nat \ {0}
    /\ failure_threshold \in Nat \ {0}
    /\ reset_timeout \in Nat
    /\ MaxFailures \in Nat /\ failure_threshold =< MaxFailures

VARIABLES
    pc,             \* where each client stands
    available,      \* permits left in the load shedder's semaphore
    state,          \* CircuitState
    age,            \* time since the circuit opened, up to reset_timeout
    failure_count,
    healthy         \* the server has recovered, for good

breakerVars == <<state, age, failure_count>>
vars == <<pc, available, state, age, failure_count, healthy>>

Stages == {"idle", "queued", "admitted", "calling", "succeeded", "failed",
           "tripping", "leaving"}

(* _permit is a local of the operation.                                    *)
Holders == {c \in Clients : pc[c] \notin {"idle", "queued"}}

Goto(c, stage) == pc' = [pc EXCEPT ![c] = stage]

Init ==
    /\ pc = [c \in Clients |-> "idle"]
    /\ available = max_concurrent_requests
    /\ state = "Closed"
    /\ age = 0
    /\ failure_count = 0
    /\ healthy = FALSE

(* acquire_permit: is_system_overloaded is false for the placeholder       *)
(* metrics; then the semaphore, or its timeout.                            *)
Call(c) ==
    /\ pc[c] = "idle"
    /\ Goto(c, "queued")
    /\ UNCHANGED <<available, breakerVars, healthy>>

AcquirePermit(c) ==
    /\ pc[c] = "queued"
    /\ available > 0
    /\ available' = available - 1
    /\ Goto(c, "admitted")
    /\ UNCHANGED <<breakerVars, healthy>>

QueueTimeout(c) ==
    /\ pc[c] = "queued"
    /\ Goto(c, "idle")
    /\ UNCHANGED <<available, breakerVars, healthy>>

(* Mutants: an open circuit that never lets a probe through; a refused     *)
(* operation that forgets its permit.                                      *)
AllowRequestNeverProbes(c) ==
    /\ pc[c] = "admitted"
    /\ Goto(c, IF state = "Open" THEN "leaving" ELSE "calling")
    /\ UNCHANGED <<available, breakerVars, healthy>>

AllowRequestLeaks(c) ==
    /\ pc[c] = "admitted"
    /\ IF state = "Open" /\ age < reset_timeout
         THEN Goto(c, "idle") /\ UNCHANGED state
         ELSE /\ Goto(c, "calling")
              /\ state' = IF state = "Open" THEN "HalfOpen" ELSE state
    /\ UNCHANGED <<available, age, failure_count, healthy>>

AllowRequest(c) ==
    /\ pc[c] = "admitted"
    /\ \/ /\ state = "Open" /\ age < reset_timeout
          /\ Goto(c, "leaving")
          /\ UNCHANGED state
       \/ /\ state = "Open" /\ age >= reset_timeout
          /\ Goto(c, "calling")
          /\ state' = "HalfOpen"
       \/ /\ state # "Open"       \* half open, it lets every request through
          /\ Goto(c, "calling")
          /\ UNCHANGED state
    /\ UNCHANGED <<available, age, failure_count, healthy>>

(* The inner client answers.                                               *)
InnerCall(c) ==
    /\ pc[c] = "calling"
    /\ \/ Goto(c, "succeeded")
       \/ /\ ~healthy /\ failure_count < MaxFailures
          /\ Goto(c, "failed")
    /\ UNCHANGED <<available, breakerVars, healthy>>

RecordSuccess(c) ==
    /\ pc[c] = "succeeded"
    /\ IF state = "HalfOpen"
         THEN state' = "Closed" /\ failure_count' = 0
         ELSE UNCHANGED <<state, failure_count>>
    /\ Goto(c, "leaving")
    /\ UNCHANGED <<available, age, healthy>>

(* Mutant: only the failure that reaches the threshold exactly trips.      *)
CountFailureOffByOne(c) ==
    /\ pc[c] = "failed"
    /\ failure_count' = failure_count + 1
    /\ Goto(c, IF failure_count' > failure_threshold THEN "tripping" ELSE "leaving")
    /\ UNCHANGED <<available, state, age, healthy>>

(* record_failure: fetch_add ...                                           *)
CountFailure(c) ==
    /\ pc[c] = "failed"
    /\ failure_count' = failure_count + 1
    /\ Goto(c, IF failure_count' >= failure_threshold THEN "tripping" ELSE "leaving")
    /\ UNCHANGED <<available, state, age, healthy>>

(* ... and, under the lock, Open(Instant::now()).                          *)
Trip(c) ==
    /\ pc[c] = "tripping"
    /\ state' = "Open"
    /\ age' = 0
    /\ Goto(c, "leaving")
    /\ UNCHANGED <<available, failure_count, healthy>>

ReleasePermit(c) ==
    /\ pc[c] = "leaving"
    /\ available' = available + 1
    /\ Goto(c, "idle")
    /\ UNCHANGED <<breakerVars, healthy>>

(* The clock, while it matters, and the server.                            *)
Tick ==
    /\ state = "Open" /\ age < reset_timeout
    /\ age' = age + 1
    /\ UNCHANGED <<pc, available, state, failure_count, healthy>>

ServerRecovers ==
    /\ ~healthy
    /\ healthy' = TRUE
    /\ UNCHANGED <<pc, available, breakerVars>>

Operation(c) ==
    \/ AcquirePermit(c) \/ QueueTimeout(c) \/ AllowRequest(c) \/ InnerCall(c)
    \/ RecordSuccess(c) \/ CountFailure(c) \/ Trip(c) \/ ReleasePermit(c)

Next == (\E c \in Clients : Call(c) \/ Operation(c)) \/ Tick \/ ServerRecovers

Spec == Init /\ [][Next]_vars

(* Tasks are scheduled and time passes; nobody has to call.                *)
FairSpec ==
    /\ Spec
    /\ WF_vars(Tick)
    /\ \A c \in Clients : WF_vars(Operation(c))

-----------------------------------------------------------------------------
(* Every variable keeps its type.                                          *)
TypeOK ==
    /\ pc \in [Clients -> Stages]
    /\ available \in 0 .. max_concurrent_requests
    /\ state \in {"Closed", "Open", "HalfOpen"}
    /\ age \in 0 .. reset_timeout
    /\ failure_count \in Nat
    /\ healthy \in BOOLEAN

(* Every way out of an operation - refused by the breaker, failed, ok -    *)
(* gives back the permit it took, and a timed out one took none.           *)
PermitAccounting == available + Cardinality(Holders) = max_concurrent_requests

(* Between record_failure's count and its write of the state other clients *)
(* may pass, but the circuit is never closed with the threshold reached    *)
(* unless some client is on its way to open it.                            *)
TripPending ==
    state = "Closed" /\ failure_count >= failure_threshold =>
        \E c \in Clients : pc[c] = "tripping"

(* Once the server has recovered, and as long as calls keep being let      *)
(* through the load shedder, the circuit closes for good - also when late  *)
(* failures still open it again.                                           *)
BreakerCloses ==
    (/\ []<>healthy
     /\ \E c \in Clients : []<><<AllowRequest(c)>>_vars)
        => <>[](state = "Closed")
=============================================================================
