----------------------------- MODULE Snapshots -----------------------------
(***************************************************************************)
(* The snapshot_worker and the cache_cleanup_worker of EventStore          *)
(* (src/src/infrastructure/event_store.rs).  Every service instance runs   *)
(* one of each over the same two tables.  A history is its length: the     *)
(* store's versions have no gap, so COUNT(e.id) and MAX(e.version) agree.  *)
(***************************************************************************)
EXTENDS Integers, FiniteSets, FiniteSetsExt

CONSTANTS
    Workers,                    \* service instances
    Aggregates,
    snapshot_threshold,         \* EventStoreConfig
    max_snapshots_per_run,
    MaxEvents                   \* bound: events saved

ASSUME SnapshotsAssumption ==
    /\ snapshot_threshold \in Nat
    /\ max_snapshots_per_run \in Nat \ {0}
    /\ MaxEvents \in Nat

VARIABLES
    running,    \* the instances that run; none starts or stops
    version,    \* table events: the version of an aggregate
    snapshots,  \* table snapshots: the version of its row, 0 for none
    task,       \* the create_snapshot tasks of a worker's run
    read,       \* the version such a task read
    cache,      \* snapshot_cache of a worker: the version cached, 0 for none
    expired,    \* the aggregates whose cached snapshot is past its ttl
    removing    \* the keys cache_cleanup_worker has collected

snapshotsVars == <<running, version, snapshots, task, read, cache, expired, removing>>

SnapshotsInit ==
    /\ running \in (SUBSET Workers) \ {{}}
    /\ version = [a \in Aggregates |-> 0]
    /\ snapshots = [a \in Aggregates |-> 0]
    /\ task = [w \in Workers |-> [a \in Aggregates |-> "none"]]
    /\ read = [w \in Workers |-> [a \in Aggregates |-> 0]]
    /\ cache = [w \in Workers |-> [a \in Aggregates |-> 0]]
    /\ expired = [w \in Workers |-> {}]
    /\ removing = [w \in Workers |-> {}]

Events == MapThenSumSet(LAMBDA a : version[a], Aggregates)

(* A save that the event store accepted.                                   *)
AppendEvent(a) ==
    /\ Events < MaxEvents
    /\ version' = [version EXCEPT ![a] = @ + 1]
    /\ UNCHANGED <<snapshots, task, read, cache, expired, removing>>

(* Mutant: an aggregate that has a snapshot is no candidate.               *)
CandidatesOnce == {a \in Aggregates : version[a] > snapshot_threshold /\ snapshots[a] = 0}

(* Mutant: the snapshot's version is not looked at.                        *)
CandidatesAlways == {a \in Aggregates : version[a] > snapshot_threshold}

(* HAVING COUNT(e.id) > $1 AND MAX(e.version) > COALESCE(s.version, 0)     *)
Candidates ==
    {a \in Aggregates : version[a] > snapshot_threshold /\ version[a] > snapshots[a]}

(* ORDER BY COUNT(e.id) DESC LIMIT $2                                      *)
Selections ==
    {s \in SUBSET Candidates :
        /\ Cardinality(s) =< max_snapshots_per_run
        /\ Cardinality(s) = max_snapshots_per_run \/ s = Candidates
        /\ \A a \in s, b \in Candidates \ s : version[a] >= version[b]}

(* A run starts when all tasks of the one before have been joined.         *)
SnapshotWorker(w) ==
    /\ \A a \in Aggregates : task[w][a] = "none"
    /\ \E s \in Selections :
          task' = [task EXCEPT ![w] = [a \in Aggregates |-> IF a \in s THEN "fetch" ELSE "none"]]
    /\ UNCHANGED <<version, snapshots, read, cache, expired, removing>>

(* create_snapshot: the events are read ...                                *)
FetchEvents(w, a) ==
    /\ task[w][a] = "fetch"
    /\ task' = [task EXCEPT ![w][a] = "save"]
    /\ read' = [read EXCEPT ![w][a] = version[a]]
    /\ UNCHANGED <<version, snapshots, cache, expired, removing>>

(* Mutant: the snapshot is cached before it is in the table.               *)
SaveSnapshotCachesFirst(w, a) ==
    /\ task[w][a] = "save"
    /\ cache' = [cache EXCEPT ![w][a] = read[w][a]]
    /\ task' = [task EXCEPT ![w][a] = "cache"]
    /\ UNCHANGED <<version, snapshots, read, expired, removing>>

(* ... and a row that holds their state replaces whatever row there is.    *)
SaveSnapshot(w, a) ==
    /\ task[w][a] = "save"
    /\ \/ /\ snapshots' = [snapshots EXCEPT ![a] = read[w][a]]
          /\ task' = [task EXCEPT ![w][a] = "cache"]
          /\ UNCHANGED read
       \/ /\ task' = [task EXCEPT ![w][a] = "none"]      \* the statement fails
          /\ read' = [read EXCEPT ![w][a] = 0]
          /\ UNCHANGED snapshots
    /\ UNCHANGED <<version, cache, expired, removing>>

CacheSnapshot(w, a) ==
    /\ task[w][a] = "cache"
    /\ cache' = [cache EXCEPT ![w][a] = read[w][a]]
    /\ expired' = [expired EXCEPT ![w] = @ \ {a}]
    /\ task' = [task EXCEPT ![w][a] = "none"]
    /\ read' = [read EXCEPT ![w][a] = 0]
    /\ UNCHANGED <<version, snapshots, removing>>

(* The ttl of a cached snapshot passes.                                    *)
Expire(w, a) ==
    /\ cache[w][a] # 0 /\ a \notin expired[w]
    /\ expired' = [expired EXCEPT ![w] = @ \cup {a}]
    /\ UNCHANGED <<version, snapshots, task, read, cache, removing>>

(* cache_cleanup_worker: collect the keys under the read lock ...          *)
CollectExpired(w) ==
    /\ removing[w] = {} /\ expired[w] # {}
    /\ removing' = [removing EXCEPT ![w] = expired[w]]
    /\ UNCHANGED <<version, snapshots, task, read, cache, expired>>

(* ... and remove them under the write lock, whatever they hold by then.   *)
RemoveExpired(w) ==
    /\ removing[w] # {}
    /\ cache' = [cache EXCEPT ![w] = [a \in Aggregates |-> IF a \in removing[w] THEN 0 ELSE @[a]]]
    /\ expired' = [expired EXCEPT ![w] = @ \ removing[w]]
    /\ removing' = [removing EXCEPT ![w] = {}]
    /\ UNCHANGED <<version, snapshots, task, read>>

CreateSnapshot(w, a) == FetchEvents(w, a) \/ SaveSnapshot(w, a) \/ CacheSnapshot(w, a)

SnapshotsNext ==
    /\ \/ \E a \in Aggregates : AppendEvent(a)
       \/ \E w \in running : SnapshotWorker(w) \/ CollectExpired(w) \/ RemoveExpired(w)
       \/ \E w \in running, a \in Aggregates : CreateSnapshot(w, a) \/ Expire(w, a)
    /\ UNCHANGED running

SnapshotsSpec == SnapshotsInit /\ [][SnapshotsNext]_snapshotsVars

(* A step of an instance that runs.                                        *)
Of(w, step) == w \in running /\ step /\ UNCHANGED running

(* The interval ticks and spawned tasks run; a statement that is tried     *)
(* again and again succeeds at some time.                                  *)
SnapshotsFairSpec ==
    /\ SnapshotsSpec
    /\ \A w \in Workers :
          /\ WF_snapshotsVars(Of(w, SnapshotWorker(w)))
          /\ WF_snapshotsVars(Of(w, CollectExpired(w))) /\ WF_snapshotsVars(Of(w, RemoveExpired(w)))
          /\ \A a \in Aggregates :
                /\ WF_snapshotsVars(Of(w, CreateSnapshot(w, a)))
                /\ SF_snapshotsVars(Of(w, SaveSnapshot(w, a) /\ snapshots' # snapshots))

-----------------------------------------------------------------------------
(* Every variable keeps its type.                                          *)
SnapshotsTypeOK ==
    /\ running \subseteq Workers
    /\ version \in [Aggregates -> Nat]
    /\ snapshots \in [Aggregates -> Nat]
    /\ task \in [Workers -> [Aggregates -> {"none", "fetch", "save", "cache"}]]
    /\ read \in [Workers -> [Aggregates -> Nat]]
    /\ cache \in [Workers -> [Aggregates -> Nat]]
    /\ expired \in [Workers -> SUBSET Aggregates]
    /\ removing \in [Workers -> SUBSET Aggregates]

(* No row is newer than the events, and a cache of the only instance that  *)
(* runs holds nothing newer than the row.  (With two, a late save of one   *)
(* takes the row back behind what the other has cached.)                   *)
CacheNotAhead ==
    \A a \in Aggregates :
        /\ snapshots[a] =< version[a]
        /\ \A w \in Workers : running = {w} => cache[w][a] =< snapshots[a]

(* A single instance only ever replaces a snapshot by a newer one.  (Two   *)
(* can each write the snapshot of the same history, the older one last.)   *)
SnapshotsAdvance ==
    [][\A w \in Workers, a \in Aggregates :
          running = {w} /\ task[w][a] = "save" /\ task'[w][a] = "cache"
              => snapshots'[a] > snapshots[a]]_snapshotsVars

(* Whatever the workers overwrite, a history over the threshold that stops *)
(* growing gets a snapshot of all of it, which then stays.                 *)
SnapshotsCatchUp ==
    \A a \in Aggregates :
        <>[](version[a] > snapshot_threshold => snapshots[a] = version[a])
=============================================================================
