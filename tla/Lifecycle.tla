----------------------------- MODULE Lifecycle -----------------------------
(***************************************************************************)
(* The life of the process: main of src/src/main.rs, and the two           *)
(* background tasks whose handles ServiceContext (src/src/infrastructure/  *)
(* init.rs) keeps behind Arcs, the cache warmup and the L1CacheUpdater.    *)
(*                                                                         *)
(* An Arc is the set of its owners: "main" for the context                 *)
(* init_all_services returned, "shutdown" for the clone main makes of it.  *)
(* Arc::get_mut and Arc::try_unwrap both ask for a sole owner.             *)
(*                                                                         *)
(* Tokio cancels an aborted task where it awaits something that is not     *)
(* ready.  With Kafka disabled poll_cache_updates is ready at once, the    *)
(* updater never awaits, and it runs on whatever is asked of it.           *)
(***************************************************************************)
EXTENDS Integers

CONSTANTS
    KafkaEnabled,   \* KafkaConfig.enabled
    Faults,         \* whether I/O may fail and tasks may panic
    MaxRequests     \* bound on the connections that are open at once

ASSUME LifecycleAssumption ==
    KafkaEnabled \in BOOLEAN /\ Faults \in BOOLEAN /\ MaxRequests \in Nat

VARIABLES
    main,           \* where main stands
    owners,         \* who owns warmup_handle and l1_handle
    handle,         \* what has become of each handle's task
    aborted,        \* tasks on whose handle abort was called
    connections     \* how many the server has open

processVars == <<main, owners, handle, aborted, connections>>

Background == {"warmup", "l1"}

Ended == {"finished", "panicked", "cancelled"}

MainStages == {"starting", "started", "checking_warmup", "checking_l1", "binding",
               "serving", "draining", "stopping_l1", "awaiting_l1",
               "stopping_warmup", "awaiting_warmup", "returning", "failing",
               "panicking", "exited", "killed"}

(* Stages in which no signal handler is installed yet.                     *)
Unguarded == {"starting", "started", "checking_warmup", "checking_l1", "binding"}

Gone == main \in {"exited", "killed"}

ProcessInit ==
    /\ main = "starting"
    /\ owners = [b \in Background |-> {}]
    /\ handle = [b \in Background |-> "none"]
    /\ aborted = {}
    /\ connections = 0

(* init_all_services: the warmup is spawned first, and runs on if creating *)
(* the updater or the event processor fails.                               *)
InitAllServices ==
    /\ main = "starting"
    /\ \/ /\ main' = "started"
          /\ handle' = [b \in Background |-> "running"]
          /\ owners' = [b \in Background |-> {"main"}]
       \/ /\ Faults
          /\ main' = "failing"
          /\ \/ handle' = [handle EXCEPT !["warmup"] = "running"]
             \/ UNCHANGED handle
          /\ UNCHANGED owners
    /\ UNCHANGED <<aborted, connections>>

(* Mutant: main keeps no clone of the context; shutdown would get the one  *)
(* it has.                                                                 *)
NoClone ==
    /\ main = "started"
    /\ main' = "checking_warmup"
    /\ UNCHANGED <<owners, handle, aborted, connections>>

CloneContext ==
    /\ main = "started"
    /\ main' = "checking_warmup"
    /\ owners' = [b \in Background |-> owners[b] \cup {"shutdown"}]
    /\ UNCHANGED <<handle, aborted, connections>>

(* Mutant: the check works on a clone, and main keeps the original.        *)
CheckKeepsContext(b, next) ==
    /\ main' = next
    /\ UNCHANGED <<owners, handle, aborted, connections>>

(* check_background_tasks waits for a task only through a handle nobody    *)
(* else owns; the Arc it was given is dropped when it is done.             *)
Check(b, next) ==
    /\ IF owners[b] = {"main"}
         THEN /\ handle[b] \in Ended
              /\ main' = IF handle[b] = "finished" THEN next ELSE "failing"
         ELSE main' = next
    /\ owners' = [owners EXCEPT ![b] = @ \ {"main"}]
    /\ UNCHANGED <<handle, aborted, connections>>

CheckWarmup == main = "checking_warmup" /\ Check("warmup", "checking_l1")

CheckL1 == main = "checking_l1" /\ Check("l1", "binding")

Bind ==
    /\ main = "binding"
    /\ \/ main' = "serving"
       \/ Faults /\ main' = "failing"
    /\ UNCHANGED <<owners, handle, aborted, connections>>

(* The server accepts until the signal, and then waits for the connections *)
(* that are open.                                                          *)
Arrive ==
    /\ main = "serving"
    /\ connections < MaxRequests
    /\ connections' = connections + 1
    /\ UNCHANGED <<main, owners, handle, aborted>>

Respond ==
    /\ connections > 0 /\ ~Gone
    /\ connections' = connections - 1
    /\ UNCHANGED <<main, owners, handle, aborted>>

(* SIGINT or SIGTERM ends a process that has no handler for it; the server *)
(* installs one.                                                           *)
ShutdownSignal ==
    /\ \/ main \in Unguarded /\ main' = "killed"
       \/ main = "serving" /\ main' = "draining"
    /\ UNCHANGED <<owners, handle, aborted, connections>>

Drain ==
    /\ main = "draining"
    /\ connections = 0
    /\ main' = "stopping_l1"
    /\ UNCHANGED <<owners, handle, aborted, connections>>

ServerError ==
    /\ main \in {"serving", "draining"} /\ Faults
    /\ main' = "failing"
    /\ UNCHANGED <<owners, handle, aborted, connections>>

(* Mutant: a shutdown that waits for the task without cancelling it.       *)
StopWithoutAbort(b, next) ==
    /\ main' = next
    /\ owners' = [owners EXCEPT ![b] = {}]
    /\ UNCHANGED <<handle, aborted, connections>>

(* shutdown: abort, then try_unwrap(..).unwrap(), then wait for the task.  *)
Stop(b, next) ==
    /\ aborted' = aborted \cup {b}
    /\ IF owners[b] = {"shutdown"}
         THEN main' = next /\ owners' = [owners EXCEPT ![b] = {}]
         ELSE main' = "panicking" /\ UNCHANGED owners
    /\ UNCHANGED <<handle, connections>>

(* Mutant: a shutdown that cancels the task and does not wait for it.      *)
AwaitNothing(b, next) ==
    /\ main' = next
    /\ UNCHANGED <<owners, handle, aborted, connections>>

Await(b, next) ==
    /\ handle[b] \in Ended
    /\ main' = next
    /\ UNCHANGED <<owners, handle, aborted, connections>>

StopL1 == main = "stopping_l1" /\ Stop("l1", "awaiting_l1")

AwaitL1 == main = "awaiting_l1" /\ Await("l1", "stopping_warmup")

StopWarmup == main = "stopping_warmup" /\ Stop("warmup", "awaiting_warmup")

AwaitWarmup == main = "awaiting_warmup" /\ Await("warmup", "returning")

(* A task that awaits something, where it can be cancelled.                *)
Yields(b) == b = "l1" => KafkaEnabled

(* The warmup ends by itself.  The updater does only when it cannot        *)
(* subscribe, for no other error leaves its loop.                          *)
TaskEnds(b) ==
    /\ handle[b] = "running" /\ ~Gone
    /\ \/ handle' = [handle EXCEPT ![b] = "finished"] /\ (b = "l1" => Faults /\ KafkaEnabled)
       \/ handle' = [handle EXCEPT ![b] = "panicked"] /\ Faults /\ Yields(b)
    /\ UNCHANGED <<main, owners, aborted, connections>>

Cancel(b) ==
    /\ handle[b] = "running" /\ b \in aborted /\ ~Gone
    /\ Yields(b)
    /\ handle' = [handle EXCEPT ![b] = "cancelled"]
    /\ UNCHANGED <<main, owners, aborted, connections>>

(* main returns or unwinds, and the runtime is dropped, which waits for    *)
(* its threads and cancels what awaits.                                    *)
DropRuntime ==
    /\ main \in {"returning", "failing", "panicking"}
    /\ \A b \in Background : handle[b] = "running" => Yields(b)
    /\ main' = "exited"
    /\ handle' = [b \in Background |-> IF handle[b] = "running" THEN "cancelled" ELSE handle[b]]
    /\ connections' = 0
    /\ UNCHANGED <<owners, aborted>>

(* What main does by itself.                                               *)
MainStep ==
    \/ InitAllServices \/ CloneContext \/ CheckWarmup \/ CheckL1 \/ Bind
    \/ Drain \/ StopL1 \/ AwaitL1 \/ StopWarmup \/ AwaitWarmup \/ DropRuntime

ProcessNext ==
    \/ MainStep
    \/ Arrive \/ Respond
    \/ ShutdownSignal
    \/ ServerError
    \/ \E b \in Background : TaskEnds(b) \/ Cancel(b)

ProcessSpec == ProcessInit /\ [][ProcessNext]_processVars

(* main runs whenever it is not waiting, an open connection is closed in   *)
(* the end, and Tokio carries out an abort.                                *)
ProcessFairSpec ==
    /\ ProcessSpec
    /\ WF_processVars(MainStep)
    /\ WF_processVars(Respond)
    /\ \A b \in Background : WF_processVars(Cancel(b))

-----------------------------------------------------------------------------
(* Every variable keeps its type.                                          *)
ProcessTypeOK ==
    /\ main \in MainStages
    /\ owners \in [Background -> SUBSET {"main", "shutdown"}]
    /\ handle \in [Background -> {"none", "running"} \cup Ended]
    /\ aborted \subseteq Background
    /\ connections \in 0 .. MaxRequests

(* The unwraps of shutdown never panic: when main gets there, the check    *)
(* has given up every other owner of the two handles.                      *)
UnwrapsSucceed == main # "panicking"

(* After an orderly shutdown no background task runs and no connection is  *)
(* open when main returns.                                                 *)
NothingLeftBehind ==
    main = "returning" => connections = 0 /\ \A b \in Background : handle[b] \in Ended

(* The check at startup does not keep the server from starting, though one *)
(* of the tasks it asks about is meant never to end.                       *)
StartsServing ==
    main = "started" ~> main \in {"serving", "failing", "exited", "killed"}

(* Once the signal has come, the process ends.                             *)
ShutdownEnds == main = "draining" ~> Gone
=============================================================================
