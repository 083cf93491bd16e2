----------------------------- MODULE EventStore -----------------------------
(***************************************************************************)
(* The write path of src/src/infrastructure/event_store.rs.                *)
(*                                                                         *)
(* save_events takes a permit of batch_semaphore, puts a BatchedEvent in   *)
(* an unbounded channel and waits on a oneshot channel.  One               *)
(* batch_processor task moves requests into a batch and spawns a           *)
(* flush_batch task when the batch is full or its timer fires.  Any number *)
(* of flush tasks run at once, each in a PostgreSQL transaction of its     *)
(* own; a task answers its requests one by one and commits at the end.     *)
(*                                                                         *)
(* A flush handles an event by its version only: payloads, ids, timestamps *)
(* and the metrics counters play no part in what the store decides.        *)
(* PostgreSQL (transactions, row locks, the unique constraint of           *)
(* migration 007, statement errors) is external and modelled by what the   *)
(* statements in this file rely on.  No event handler is registered        *)
(* anywhere in the crate, so handle_event does nothing and cannot fail.    *)
(***************************************************************************)
EXTENDS Integers, Sequences, FiniteSets, Functions

CONSTANTS
    Requests,           \* concurrent activations of save_events
    Aggregates,         \* aggregate ids
    Flushes,            \* bound: flush_batch tasks alive at the same time
    CallsOf,            \* the arguments each of them may be called with
    InitialRows,        \* versions stored for each aggregate at start-up
    BatchSize,          \* EventStoreConfig.batch_size
    MaxBatchQueueSize,  \* EventStoreConfig.max_batch_queue_size
    MaxConnections,     \* EventStoreConfig.max_connections
    Disconnecting,      \* requests whose client may disconnect
    Lookups             \* aggregates whose current version callers ask for

(* A call names an aggregate, the expected_version and the number of       *)
(* events; a call with no events returns Ok before it touches anything.    *)
ASSUME EventStoreAssumption ==
    /\ CallsOf \in [Requests ->
          SUBSET [agg : Aggregates, expected : Int, count : Nat \ {0}]]
    /\ \A r \in Requests : CallsOf[r] # {}
    /\ InitialRows \in [Aggregates -> SUBSET Nat]
    /\ BatchSize \in Nat \ {0}
    /\ MaxBatchQueueSize \in Nat \ {0}
    /\ MaxConnections \in Nat \ {0}
    /\ IsFiniteSet(Requests)
    /\ IsFiniteSet(Flushes)
    /\ Lookups \subseteq Aggregates

VARIABLES
    pc,             \* where each activation of save_events stands
    arg,            \* its arguments
    result,         \* what its oneshot channel delivered
    permits,        \* available permits of batch_semaphore
    queue,          \* the mpsc channel
    batch,          \* the Vec of batch_processor
    fpc,            \* where each flush_batch task stands
    todo,           \* the entries it has still to answer, current one first
    tx,             \* its transaction
    snapshot,       \* what its first query fixed it to see
    locks,          \* the rows it holds FOR UPDATE
    inserted,       \* rows it inserted and has not committed
    rows,           \* the committed versions of each aggregate
    lookup,         \* get_current_version results not yet cached
    version_cache   \* the version_cache DashMap, as a set of pairs

callVars == <<pc, arg, result>>
processorVars == <<queue, batch>>
txVars == <<tx, snapshot, locks, inserted>>
cacheVars == <<lookup, version_cache>>
vars == <<pc, arg, result, permits, queue, batch, fpc, todo, tx, snapshot,
          locks, inserted, rows, lookup, version_cache>>

(***************************************************************************)
(* Values                                                                  *)
(***************************************************************************)
Errors == {"conflict", "validation", "database", "dropped"}
Results == {"none", "ok"} \cup Errors
CallStages == {"idle", "acquire", "wait", "done", "orphan"}
FlushStages == {"idle", "begin", "entry", "select", "insert"}
TxStates == {"none", "begun", "open", "aborted"}

(* Stands in arg for an activation that is not running.                    *)
NoCall(r) == CHOOSE c \in CallsOf[r] : TRUE

(* The permit is a local of save_events, held until the function returns.  *)
Holders == {r \in Requests : pc[r] \in {"wait", "done"}}

(***************************************************************************)
(* Reading the events table                                                *)
(***************************************************************************)
(* ORDER BY version DESC LIMIT 1: no row, or the row of highest version.   *)
Latest(S) == {v \in S : \A w \in S : w =< v}

Own(f, a) == {p[2] : p \in {q \in inserted[f] : q[1] = a}}

(* The rows of aggregate a that the transaction of flush f reads, and the  *)
(* ones its unique constraint is checked against.                          *)
Visible(f, a) == snapshot[f][a] \cup Own(f, a)
Stored(f, a) == rows[a] \cup Own(f, a)

NoRows == [a \in Aggregates |-> {}]

Entry(f) == Head(todo[f])
Agg(f) == arg[Entry(f)].agg

(* prepare_events_for_insert_optimized numbers the events from             *)
(* expected_version + 1.                                                   *)
FirstVersion(r) == arg[r].expected + 1
LastVersion(r) == arg[r].expected + arg[r].count
NewVersions(r) == FirstVersion(r) .. LastVersion(r)

(* validate_event, for every event of the request.                         *)
ValidEvents(r) == \A v \in NewVersions(r) : v > 0

(* The version sequence check of bulk_insert_events_optimized: it compares *)
(* the i-th event, whose version is first + i, with first + i + 1.         *)
SequenceAccepted(r) ==
    arg[r].count > 1 =>
        \A i \in 0 .. arg[r].count - 1 :
            FirstVersion(r) + i = FirstVersion(r) + i + 1

(* A oneshot send wakes a waiting call, and is ignored by an abandoned one. *)
AfterReply(r) == IF pc[r] = "wait" THEN "done" ELSE "idle"

-----------------------------------------------------------------------------
Init ==
    /\ pc = [r \in Requests |-> "idle"]
    /\ arg = [r \in Requests |-> NoCall(r)]
    /\ result = [r \in Requests |-> "none"]
    /\ permits = MaxBatchQueueSize
    /\ queue = <<>>
    /\ batch = <<>>
    /\ fpc = [f \in Flushes |-> "idle"]
    /\ todo = [f \in Flushes |-> <<>>]
    /\ tx = [f \in Flushes |-> "none"]
    /\ snapshot = [f \in Flushes |-> NoRows]
    /\ locks = [f \in Flushes |-> {}]
    /\ inserted = [f \in Flushes |-> {}]
    /\ rows = InitialRows
    /\ lookup = {}
    /\ version_cache = {}

(***************************************************************************)
(* save_events                                                             *)
(***************************************************************************)
SaveEvents(r) ==
    /\ pc[r] = "idle"
    /\ \E c \in CallsOf[r] : arg' = [arg EXCEPT ![r] = c]
    /\ pc' = [pc EXCEPT ![r] = "acquire"]
    /\ UNCHANGED <<result, permits, processorVars, fpc, todo, txVars, rows, cacheVars>>

(* acquire_owned returns, and the request goes into the channel.           *)
AcquirePermit(r) ==
    /\ pc[r] = "acquire"
    /\ permits > 0
    /\ permits' = permits - 1
    /\ pc' = [pc EXCEPT ![r] = "wait"]
    /\ queue' = Append(queue, r)
    /\ UNCHANGED <<arg, result, batch, fpc, todo, txVars, rows, cacheVars>>

(* response_rx delivers; save_events returns and drops its permit.         *)
ReturnFromSave(r) ==
    /\ pc[r] = "done"
    /\ pc' = [pc EXCEPT ![r] = "idle"]
    /\ permits' = permits + 1
    /\ arg' = [arg EXCEPT ![r] = NoCall(r)]
    /\ result' = [result EXCEPT ![r] = "none"]
    /\ UNCHANGED <<processorVars, fpc, todo, txVars, rows, cacheVars>>

(* Mutant: the permit travels with the entry and is never credited.        *)
CancelKeepsPermit(r) ==
    /\ r \in Disconnecting
    /\ pc[r] = "wait"
    /\ pc' = [pc EXCEPT ![r] = "orphan"]
    /\ UNCHANGED <<arg, result, permits, processorVars, fpc, todo, txVars, rows,
                   cacheVars>>

(* The web server drops the future of a handler whose client disconnects:  *)
(* the permit is released, the entry stays where it is and its answer goes *)
(* nowhere.                                                                *)
Cancel(r) ==
    /\ r \in Disconnecting
    /\ \/ /\ pc[r] = "acquire"
          /\ pc' = [pc EXCEPT ![r] = "idle"]
          /\ arg' = [arg EXCEPT ![r] = NoCall(r)]
          /\ UNCHANGED permits
       \/ /\ pc[r] = "wait"
          /\ pc' = [pc EXCEPT ![r] = "orphan"]
          /\ permits' = permits + 1
          /\ UNCHANGED arg
    /\ UNCHANGED <<result, processorVars, fpc, todo, txVars, rows, cacheVars>>

(***************************************************************************)
(* batch_processor                                                         *)
(***************************************************************************)
Spawn(entries) ==
    \E f \in Flushes :
        /\ fpc[f] = "idle"
        /\ fpc' = [fpc EXCEPT ![f] = "begin"]
        /\ todo' = [todo EXCEPT ![f] = entries]

BatchProcessorRecv ==
    LET collected == Append(batch, Head(queue)) IN
    /\ queue # <<>>
    /\ queue' = Tail(queue)
    /\ IF Len(collected) >= BatchSize
         THEN /\ Spawn(collected)
              /\ batch' = <<>>
         ELSE /\ batch' = collected
              /\ UNCHANGED <<fpc, todo>>
    /\ UNCHANGED <<callVars, permits, txVars, rows, cacheVars>>

BatchProcessorTimeout ==
    /\ batch # <<>>
    /\ Spawn(batch)
    /\ batch' = <<>>
    /\ UNCHANGED <<callVars, permits, queue, txVars, rows, cacheVars>>

BatchProcessor == BatchProcessorRecv \/ BatchProcessorTimeout

(***************************************************************************)
(* flush_batch                                                             *)
(***************************************************************************)
Connected(f) == fpc[f] \notin {"idle", "begin"}

(* pool.begin(): waits for one of the pool's connections.                  *)
FlushBegin(f) ==
    /\ fpc[f] = "begin"
    /\ Cardinality({g \in Flushes : Connected(g)}) < MaxConnections
    /\ fpc' = [fpc EXCEPT ![f] = "entry"]
    /\ tx' = [tx EXCEPT ![f] = "begun"]
    /\ UNCHANGED <<callVars, permits, processorVars, todo, snapshot, locks,
                   inserted, rows, cacheVars>>

(* No connection within acquire_timeout, or a connection error: the batch, *)
(* and every response_tx in it, is dropped.                                *)
FlushBeginFails(f) ==
    LET entries == {todo[f][i] : i \in DOMAIN todo[f]} IN
    /\ fpc[f] = "begin"
    /\ fpc' = [fpc EXCEPT ![f] = "idle"]
    /\ todo' = [todo EXCEPT ![f] = <<>>]
    /\ pc' = [r \in Requests |-> IF r \in entries THEN AfterReply(r) ELSE pc[r]]
    /\ result' = [r \in Requests |->
                     IF r \in entries /\ pc[r] = "wait" THEN "dropped"
                                                       ELSE result[r]]
    /\ arg' = [r \in Requests |->
                  IF r \in entries /\ pc[r] = "orphan" THEN NoCall(r) ELSE arg[r]]
    /\ UNCHANGED <<permits, processorVars, txVars, rows, cacheVars>>

(* The answer to the current entry; flush_batch goes on to the next one.   *)
Reply(f, res) ==
    LET r == Entry(f) IN
    /\ pc' = [pc EXCEPT ![r] = AfterReply(r)]
    /\ result' = [result EXCEPT ![r] = IF pc[r] = "wait" THEN res ELSE @]
    /\ arg' = [arg EXCEPT ![r] = IF pc[r] = "orphan" THEN NoCall(r) ELSE @]
    /\ todo' = [todo EXCEPT ![f] = Tail(@)]
    /\ fpc' = [fpc EXCEPT ![f] = "entry"]

(* A failed statement aborts the transaction, which releases its locks and *)
(* discards its inserts at once.                                           *)
Abort(f) ==
    /\ tx' = [tx EXCEPT ![f] = "aborted"]
    /\ snapshot' = [snapshot EXCEPT ![f] = NoRows]
    /\ locks' = [locks EXCEPT ![f] = {}]
    /\ inserted' = [inserted EXCEPT ![f] = {}]

(* prepare, validate, and SET TRANSACTION ISOLATION LEVEL, which fails in  *)
(* an aborted transaction.  The first query of a serializable transaction  *)
(* takes its snapshot before it waits for a row lock.                      *)
FlushEntry(f) ==
    /\ fpc[f] = "entry"
    /\ todo[f] # <<>>
    /\ \/ /\ ~ValidEvents(Entry(f))
          /\ Reply(f, "validation")
          /\ UNCHANGED <<tx, snapshot>>
       \/ /\ ValidEvents(Entry(f))
          /\ tx[f] = "aborted"
          /\ Reply(f, "database")
          /\ UNCHANGED <<tx, snapshot>>
       \/ /\ ValidEvents(Entry(f))
          /\ tx[f] # "aborted"
          /\ fpc' = [fpc EXCEPT ![f] = "select"]
          /\ tx' = [tx EXCEPT ![f] = "open"]
          /\ snapshot' = [snapshot EXCEPT ![f] = IF tx[f] = "begun" THEN rows ELSE @]
          /\ UNCHANGED <<callVars, todo>>
    /\ UNCHANGED <<permits, processorVars, locks, inserted, rows, cacheVars>>

Uncache(a) == {p \in version_cache : p[1] # a}

(* SELECT ... FOR UPDATE, then the two checks.  fetch_one of no row is an  *)
(* error of the client library and leaves the transaction usable.          *)
NoRow(f) ==
    /\ Latest(Visible(f, Agg(f))) = {}
    /\ Reply(f, "database")
    /\ UNCHANGED <<locks, version_cache>>

LastRow(f, v) ==
    /\ v \in Latest(Visible(f, Agg(f)))
    /\ \A g \in Flushes \ {f} : <<Agg(f), v>> \notin locks[g]
    /\ locks' = [locks EXCEPT ![f] = @ \cup {<<Agg(f), v>>}]

VersionConflict(f, current_version) ==
    /\ current_version # FirstVersion(Entry(f))
    /\ version_cache' = Uncache(Agg(f))
    /\ Reply(f, "conflict")

(* Mutant: the version test as callers expect it.                          *)
VersionMatchRepaired(f, current_version) ==
    /\ current_version + 1 = FirstVersion(Entry(f))
    /\ fpc' = [fpc EXCEPT ![f] = "insert"]
    /\ UNCHANGED <<callVars, todo, version_cache>>

VersionMatch(f, current_version) ==
    /\ current_version = FirstVersion(Entry(f))
    /\ UNCHANGED version_cache
    /\ IF SequenceAccepted(Entry(f))
         THEN /\ fpc' = [fpc EXCEPT ![f] = "insert"]
              /\ UNCHANGED <<callVars, todo>>
         ELSE Reply(f, "validation")

FlushSelect(f) ==
    /\ fpc[f] = "select"
    /\ tx[f] = "open"
    /\ \/ NoRow(f)
       \/ \E v \in Visible(f, Agg(f)) :
             LastRow(f, v) /\ (VersionConflict(f, v) \/ VersionMatch(f, v))
    /\ UNCHANGED <<permits, processorVars, tx, snapshot, inserted, rows, lookup>>

(* Mutant: a statement waits for a row lock without limit.                 *)
FlushSelectWaits(f) ==
    /\ fpc[f] = "select"
    /\ tx[f] = "aborted"
    /\ Abort(f)
    /\ Reply(f, "database")
    /\ UNCHANGED <<permits, processorVars, rows, cacheVars>>

(* The SELECT fails: a statement_timeout or a deadlock while it waits for  *)
(* a row lock, a serialization failure, a lost connection, or - when it is *)
(* the retry of a failed INSERT - because the transaction is aborted.      *)
FlushSelectFails(f) ==
    /\ fpc[f] = "select"
    /\ Abort(f)
    /\ Reply(f, "database")
    /\ UNCHANGED <<permits, processorVars, rows, cacheVars>>

(* Mutant: ON CONFLICT DO NOTHING.                                         *)
InsertIgnoresDuplicates(duplicate) == {"ok"}

(* What execute() and the error analysis after it come to.  The constraint *)
(* that PostgreSQL names is the one of the hash partition that holds the   *)
(* row, so a duplicate may or may not be recognised as a conflict.         *)
InsertResults(duplicate) ==
    IF duplicate THEN {"conflict", "database"} ELSE {"ok"}

FlushInsert(f) ==
    LET r == Entry(f)
        a == Agg(f)
        duplicate == NewVersions(r) \cap Stored(f, a) # {}
    IN
    /\ fpc[f] = "insert"
    /\ \A g \in Flushes \ {f} : \A v \in NewVersions(r) : <<a, v>> \notin inserted[g]
    /\ \E res \in InsertResults(duplicate) :
          /\ Reply(f, res)
          /\ version_cache' =
                CASE res = "ok" -> Uncache(a) \cup {<<a, LastVersion(r)>>}
                  [] res = "conflict" -> Uncache(a)
                  [] res = "database" -> version_cache
          /\ IF duplicate
               THEN Abort(f)
               ELSE /\ inserted' = [inserted EXCEPT ![f] =
                                      @ \cup ({a} \X NewVersions(r))]
                    /\ UNCHANGED <<tx, snapshot, locks>>
    /\ UNCHANGED <<permits, processorVars, rows, lookup>>

(* The INSERT fails for another reason: a transient code sends the loop    *)
(* back to its SELECT in the same, now aborted, transaction.               *)
FlushInsertFails(f) ==
    /\ fpc[f] = "insert"
    /\ Abort(f)
    /\ \/ Reply(f, "database")
       \/ /\ fpc' = [fpc EXCEPT ![f] = "select"]
          /\ UNCHANGED <<callVars, todo>>
    /\ UNCHANGED <<permits, processorVars, rows, cacheVars>>

EndFlush(f) ==
    /\ fpc[f] = "entry"
    /\ todo[f] = <<>>
    /\ fpc' = [fpc EXCEPT ![f] = "idle"]
    /\ tx' = [tx EXCEPT ![f] = "none"]
    /\ snapshot' = [snapshot EXCEPT ![f] = NoRows]
    /\ locks' = [locks EXCEPT ![f] = {}]
    /\ inserted' = [inserted EXCEPT ![f] = {}]
    /\ UNCHANGED <<callVars, permits, processorVars, todo, cacheVars>>

(* tx.commit() of a transaction that is still open.                        *)
FlushCommit(f) ==
    /\ tx[f] # "aborted"
    /\ rows' = [a \in Aggregates |-> Stored(f, a)]
    /\ EndFlush(f)

(* COMMIT fails, or is turned into a rollback because the transaction was  *)
(* aborted.                                                                *)
FlushRollback(f) ==
    /\ EndFlush(f)
    /\ UNCHANGED rows

FlushBatch(f) ==
    \/ FlushBegin(f) \/ FlushBeginFails(f) \/ FlushEntry(f)
    \/ FlushSelect(f) \/ FlushSelectFails(f)
    \/ FlushInsert(f) \/ FlushInsertFails(f)
    \/ FlushCommit(f) \/ FlushRollback(f)

(***************************************************************************)
(* get_current_version: a query, and after its await a write to the cache. *)
(* Bound: one call per aggregate is between the two at a time.             *)
(***************************************************************************)
QueryCurrentVersion(a) ==
    /\ \A p \in lookup : p[1] # a
    /\ lookup' = lookup \cup
          (IF rows[a] = {} THEN {<<a, 0>>} ELSE {a} \X Latest(rows[a]))
    /\ UNCHANGED <<callVars, permits, processorVars, fpc, todo, txVars, rows,
                   version_cache>>

CacheCurrentVersion(a) ==
    /\ \E p \in lookup :
          /\ p[1] = a
          /\ version_cache' = Uncache(a) \cup {p}
          /\ lookup' = lookup \ {p}
    /\ UNCHANGED <<callVars, permits, processorVars, fpc, todo, txVars, rows>>

-----------------------------------------------------------------------------
SaveCall(r) == SaveEvents(r) \/ AcquirePermit(r) \/ ReturnFromSave(r)

Next ==
    \/ \E r \in Requests : SaveCall(r) \/ Cancel(r)
    \/ BatchProcessor
    \/ \E f \in Flushes : FlushBatch(f)
    \/ \E a \in Lookups : QueryCurrentVersion(a) \/ CacheCurrentVersion(a)

Spec == Init /\ [][Next]_vars

(* The runtime polls every task that can make progress; the semaphore      *)
(* serves its waiters in order, so none of them is passed over for ever.   *)
Fairness ==
    /\ WF_vars(BatchProcessor)
    /\ \A f \in Flushes : WF_vars(FlushBatch(f))
    /\ \A r \in Requests : WF_vars(ReturnFromSave(r)) /\ SF_vars(AcquirePermit(r))

FairSpec == Spec /\ Fairness

-----------------------------------------------------------------------------
(***************************************************************************)
(* Properties                                                              *)
(***************************************************************************)
(* Every variable keeps its type.                                          *)
TypeOK ==
    /\ pc \in [Requests -> CallStages]
    /\ arg \in [Requests -> UNION Range(CallsOf)]
    /\ result \in [Requests -> Results]
    /\ permits \in 0 .. MaxBatchQueueSize
    /\ queue \in Seq(Requests)
    /\ batch \in Seq(Requests)
    /\ fpc \in [Flushes -> FlushStages]
    /\ todo \in [Flushes -> Seq(Requests)]
    /\ tx \in [Flushes -> TxStates]
    /\ snapshot \in [Flushes -> [Aggregates -> SUBSET Nat]]
    /\ locks \in [Flushes -> SUBSET (Aggregates \X Nat)]
    /\ inserted \in [Flushes -> SUBSET (Aggregates \X Nat)]
    /\ rows \in [Aggregates -> SUBSET Nat]
    /\ lookup \subseteq Aggregates \X Nat
    /\ version_cache \subseteq Aggregates \X Nat

(* No permit of batch_semaphore is lost or made up, however a call ends:   *)
(* answered, its batch dropped by a failed begin, or its caller gone.      *)
PermitAccounting ==
    permits + Cardinality(Holders) = MaxBatchQueueSize

(* A request that was admitted and not answered is in exactly one place -  *)
(* the channel, the batch, or one flush task - once; no other request is   *)
(* anywhere.  So none is lost between the tasks and none is handled twice. *)
InFlight == {r \in Requests : pc[r] \in {"wait", "orphan"}}

InFlushes == UNION {Range(todo[f]) : f \in Flushes}

OnePlace ==
    /\ IsInjective(queue) /\ IsInjective(batch)
    /\ \A f \in Flushes : IsInjective(todo[f])
    /\ Range(queue) \cap Range(batch) = {}
    /\ \A f \in Flushes : Range(todo[f]) \cap (Range(queue) \cup Range(batch)) = {}
    /\ \A f, g \in Flushes : f # g => Range(todo[f]) \cap Range(todo[g]) = {}
    /\ Range(queue) \cup Range(batch) \cup InFlushes = InFlight

(* A call is pending until it is answered, permit or not.                  *)
LogStage == [idle |-> "idle", acquire |-> "pending", wait |-> "pending",
             done |-> "answered", orphan |-> "abandoned"]

(* The store's contract: save_events as the rest of the program sees it.   *)
Log == INSTANCE OptimisticLog WITH
    stage <- [r \in Requests |-> LogStage[pc[r]]],
    call <- arg,
    reply <- result,
    log <- rows

(* The batching, the concurrent transactions, their failures and retries   *)
(* are invisible to callers: every behaviour is one of OptimisticLog.      *)
ImplementsLog == Log!LogSpec

(* What the version test and the sequence test of                          *)
(* bulk_insert_events_optimized let through, the unique constraint         *)
(* rejects: no sequence of saves, failures and disconnects changes the     *)
(* committed events of any aggregate.                                      *)
NothingAppended == [][rows' = rows]_vars

(* ... and no save of events is answered Ok.                               *)
NoSaveSucceeds == \A r \in Requests : result[r] # "ok"

(* A save is told of a conflict only if the version it expects is not the  *)
(* current one.  (The store does not have this property.)                  *)
ConflictMeansStale ==
    \A r \in Requests :
        result[r] = "conflict" =>
            ~Log!IsCurrent(rows[arg[r].agg], arg[r].expected)

(* max_batch_queue_size bounds the requests in the channel, the batch and   *)
(* the flush tasks whose callers still wait; only those that a disconnected *)
(* client left behind come on top.                                         *)
QueueBound ==
    Cardinality({r \in Range(queue) \cup Range(batch) \cup InFlushes : pc[r] # "orphan"})
        =< MaxBatchQueueSize

(* version_cache never names a version that is not the committed one.      *)
CacheMatchesTable ==
    \A p \in version_cache : Log!IsCurrent(rows[p[1]], p[2])

(* A save that was started returns to its caller, whatever fails.          *)
EverySaveReturns == \A r \in Requests : pc[r] # "idle" ~> pc[r] = "idle"
=============================================================================
