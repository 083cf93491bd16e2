--------------------------- MODULE EventPipeline ---------------------------
(***************************************************************************)
(* KafkaEventProcessor, DeadLetterQueue, KafkaRecovery and                 *)
(* RecoveryStrategies (src/src/infrastructure/kafka_*.rs) around one       *)
(* KafkaConsumer: the four share one StreamConsumer, which is subscribed   *)
(* to the events topic only.  Whoever polls gets the next message of that  *)
(* topic.  The event store is used through its contract: it appends a      *)
(* batch whose version is the current one, and may refuse any batch.       *)
(*                                                                         *)
(* An event is named by its version in the history the run starts from, so *)
(* a history that holds a name twice holds an event twice.  The cache      *)
(* topic is not modelled (see CacheService), offsets are never committed.  *)
(***************************************************************************)
EXTENDS Integers, Sequences, FiniteSets

CONSTANTS
    Accounts,
    InitialEvents,  \* [Accounts -> Nat], events stored at the start
    Recoverers,     \* callers of KafkaRecovery::start_recovery
    Strategists,    \* callers of execute_recovery
    Loop,           \* the task that runs start_processing
    Strategies,     \* the RecoveryStrategy values they ask for
    Faults,         \* TRUE: Kafka, Redis and the database may fail
    MaxStarts       \* bound: recoveries and strategies started

ASSUME EventPipelineAssumption ==
    /\ InitialEvents \in [Accounts -> Nat]
    /\ Loop \notin Recoverers \cup Strategists
    /\ Recoverers \cap Strategists = {}
    /\ Strategies \subseteq {"FullReplay", "SelectiveReplay", "IncrementalReplay", "DLQOnly"}
    /\ Faults \in BOOLEAN
    /\ MaxStarts \in Nat

VARIABLES
    stored,         \* the histories of the event store
    events, dlq,    \* unread messages of the two topics
    lpc, batch,     \* start_processing: its step and the batch in hand
    dlq_task,       \* the task start_processing spawns for process_dlq
    is_recovering, accounts_in_recovery,            \* RecoveryState
    wpc, strategy, todo, current, read, sending,    \* recoveries, strategies
    starts, selective,          \* replays started, and selective ones of them
    polled, done, dead          \* batches the loop consumed, by their fate

loopVars == <<lpc, batch, polled, done, dead>>
recoveryState == <<is_recovering, accounts_in_recovery>>
workVars == <<wpc, strategy, todo, current, read, sending, starts, selective>>
vars == <<stored, events, dlq, dlq_task, loopVars, recoveryState, workVars>>

Recoveries == Recoverers \cup {Loop}
Workers == Recoveries \cup Strategists
Nobody == "none"
NoBatch == [account |-> Nobody, events |-> <<>>, version |-> 0]
Batch(a, es, v) == [account |-> a, events |-> es, version |-> v]
Letter(b) == [message |-> b, retry_count |-> 0]

Init ==
    /\ stored = [a \in Accounts |-> [v \in 1 .. InitialEvents[a] |-> v]]
    /\ events = <<>> /\ dlq = <<>>
    /\ lpc = "off" /\ batch = NoBatch /\ dlq_task = "off"
    /\ is_recovering = FALSE /\ accounts_in_recovery = {}
    /\ wpc = [w \in Workers |-> "idle"]
    /\ strategy = [w \in Workers |-> "Recovery"]
    /\ todo = [w \in Workers |-> {}]
    /\ current = [w \in Workers |-> Nobody]
    /\ read = [w \in Workers |-> 0]
    /\ sending = [w \in Workers |-> <<>>]
    /\ starts = 0 /\ selective = 0 /\ polled = 0 /\ done = 0 /\ dead = 0

-----------------------------------------------------------------------------
(* start_processing: subscribe, spawn the dead letter task, then loop.     *)
StartProcessing ==
    /\ lpc = "off"
    /\ lpc' = "polling"
    /\ dlq_task' = "polling"
    /\ UNCHANGED <<stored, events, dlq, batch, polled, done, dead,
                   recoveryState, workVars>>

PollEvents ==
    /\ lpc = "polling" /\ events # <<>>
    /\ batch' = Head(events)
    /\ events' = Tail(events)
    /\ polled' = polled + 1
    /\ lpc' = "saving"
    /\ UNCHANGED <<stored, dlq, dlq_task, done, dead, recoveryState, workVars>>

(* process_batch: save_events with the batch's version as the expected one *)
SaveEvents ==
    /\ lpc = "saving"
    /\ \/ /\ batch.version = Len(stored[batch.account])
          /\ stored' = [stored EXCEPT ![batch.account] = @ \o batch.events]
          /\ lpc' = "caching"
       \/ /\ lpc' = "dead"
          /\ UNCHANGED stored
    /\ UNCHANGED <<events, dlq, dlq_task, batch, polled, done, dead,
                   recoveryState, workVars>>

(* process_batch: the caches, the projection and the cache update.         *)
UpdateCaches ==
    /\ lpc = "caching"
    /\ \/ lpc' = "polling" /\ batch' = NoBatch /\ done' = done + 1
       \/ Faults /\ lpc' = "dead" /\ UNCHANGED <<batch, done>>
    /\ UNCHANGED <<stored, events, dlq, dlq_task, polled, dead,
                   recoveryState, workVars>>

(* Mutant: a dead letter that cannot be sent is only logged.               *)
SendToDlqLogs ==
    /\ lpc = "dead"
    /\ \/ dlq' = Append(dlq, Letter(batch)) /\ dead' = dead + 1
       \/ Faults /\ UNCHANGED <<dlq, dead>>
    /\ lpc' = "polling" /\ batch' = NoBatch
    /\ UNCHANGED <<stored, events, dlq_task, polled, done, recoveryState, workVars>>

(* send_to_dlq; when it fails the loop returns with the batch in hand.     *)
SendToDlq ==
    /\ lpc = "dead"
    /\ \/ /\ dlq' = Append(dlq, Letter(batch))
          /\ lpc' = "polling" /\ batch' = NoBatch /\ dead' = dead + 1
       \/ Faults /\ lpc' = "stopped" /\ UNCHANGED <<dlq, batch, dead>>
    /\ UNCHANGED <<stored, events, dlq_task, polled, done, recoveryState, workVars>>

(* process_dlq of the spawned task: it polls once.  An event batch is not  *)
(* a DeadLetterMessage, so what it takes from the events topic is lost.    *)
ProcessDlq ==
    /\ dlq_task = "polling"
    /\ dlq_task' = "ended"
    /\ \/ UNCHANGED events
       \/ events # <<>> /\ events' = Tail(events)
    /\ UNCHANGED <<stored, dlq, loopVars, recoveryState, workVars>>

-----------------------------------------------------------------------------
(* Mutant: a recovery does not give the loop back.                         *)
FinishKeepsLoop(w) ==
    /\ wpc' = [wpc EXCEPT ![w] = "idle"]
    /\ strategy' = [strategy EXCEPT ![w] = "Recovery"]
    /\ todo' = [todo EXCEPT ![w] = {}]
    /\ current' = [current EXCEPT ![w] = Nobody]
    /\ read' = [read EXCEPT ![w] = 0]
    /\ sending' = [sending EXCEPT ![w] = <<>>]
    /\ UNCHANGED <<starts, selective, loopVars>>

(* A worker that is done forgets its locals; the loop polls again.         *)
Finish(w) ==
    /\ wpc' = [wpc EXCEPT ![w] = "idle"]
    /\ strategy' = [strategy EXCEPT ![w] = "Recovery"]
    /\ todo' = [todo EXCEPT ![w] = {}]
    /\ current' = [current EXCEPT ![w] = Nobody]
    /\ read' = [read EXCEPT ![w] = 0]
    /\ sending' = [sending EXCEPT ![w] = <<>>]
    /\ lpc' = IF w = Loop THEN "polling" ELSE lpc
    /\ UNCHANGED <<starts, selective, batch, polled, done, dead>>

Goto(w, step) ==
    /\ wpc' = [wpc EXCEPT ![w] = step]
    /\ UNCHANGED <<loopVars, starts, selective>>

(* Mutant: start_recovery does not look at the flag.                       *)
StartRecoveryAgain(w) ==
    /\ wpc[w] = "idle" /\ starts < MaxStarts
    /\ w = Loop => lpc = "polling" /\ polled > 0 /\ Faults
    /\ is_recovering' = TRUE
    /\ wpc' = [wpc EXCEPT ![w] = "accounts"]
    /\ lpc' = IF w = Loop THEN "recovering" ELSE lpc
    /\ starts' = starts + 1
    /\ UNCHANGED <<stored, events, dlq, dlq_task, batch, polled, done, dead,
                   accounts_in_recovery, strategy, todo, current, read, sending,
                   selective>>

(* start_recovery.  The loop calls it when a poll fails and the error rate *)
(* is high, which needs a message consumed before.                         *)
StartRecovery(w) ==
    /\ wpc[w] = "idle" /\ starts < MaxStarts
    /\ w = Loop => lpc = "polling" /\ polled > 0 /\ Faults
    /\ ~is_recovering
    /\ is_recovering' = TRUE
    /\ wpc' = [wpc EXCEPT ![w] = "accounts"]
    /\ lpc' = IF w = Loop THEN "recovering" ELSE lpc
    /\ starts' = starts + 1
    /\ UNCHANGED <<stored, events, dlq, dlq_task, batch, polled, done, dead,
                   accounts_in_recovery, strategy, todo, current, read, sending,
                   selective>>

(* perform_recovery: get_all_accounts of the projections.                  *)
GetAllAccounts(w) ==
    /\ wpc[w] = "accounts"
    /\ \/ /\ todo' = [todo EXCEPT ![w] = Accounts]
          /\ Goto(w, "next")
          /\ UNCHANGED <<strategy, current, read, sending>>
       \/ Faults /\ Finish(w)
    /\ UNCHANGED <<stored, events, dlq, dlq_task, recoveryState>>

(* perform_recovery: list the account and rebuild it from its events.      *)
NextAccount(w) ==
    /\ w \in Recoveries /\ wpc[w] = "next"
    /\ \E a \in todo[w] :
          /\ accounts_in_recovery' = accounts_in_recovery \cup {a}
          /\ \/ /\ todo' = [todo EXCEPT ![w] = @ \ {a}]
                /\ current' = [current EXCEPT ![w] = a]
                /\ read' = [read EXCEPT ![w] = Len(stored[a])]
                /\ Goto(w, "verifying")
                /\ UNCHANGED <<strategy, sending>>
             \/ Faults /\ Finish(w)
    /\ UNCHANGED <<stored, events, dlq, dlq_task, is_recovering>>

(* verify_account_events: read the events again and compare.               *)
VerifyAccountEvents(w) ==
    /\ wpc[w] = "verifying"
    /\ \/ Len(stored[current[w]]) = read[w] /\ Goto(w, "reading")
       \/ (Len(stored[current[w]]) # read[w] \/ Faults) /\ Goto(w, "failed")
    /\ UNCHANGED <<stored, events, dlq, dlq_task, recoveryState,
                   strategy, todo, current, read, sending>>

(* handle_inconsistent_account, handle_replay_failure: a letter without    *)
(* events; the account stays listed.                                       *)
HandleFailure(w) ==
    /\ wpc[w] = "failed"
    /\ \/ /\ dlq' = Append(dlq, Letter(Batch(current[w], <<>>, read[w])))
          /\ Goto(w, "next")
          /\ UNCHANGED <<strategy, todo, current, read, sending>>
       \/ Faults /\ Finish(w) /\ UNCHANGED dlq
    /\ UNCHANGED <<stored, events, dlq_task, recoveryState>>

(* Mutant: every event claims the version the history has now.             *)
SinglesAtEnd(a) ==
    [v \in 1 .. Len(stored[a]) |-> Batch(a, <<stored[a][v]>>, Len(stored[a]) + v - 1)]

(* One message per event, with the event's own version.                    *)
Singles(a) == [v \in 1 .. Len(stored[a]) |-> Batch(a, <<stored[a][v]>>, v)]

(* selective_replay: stored versions have no gap, so one message.          *)
Whole(a) ==
    IF stored[a] = <<>> THEN <<>> ELSE <<Batch(a, stored[a], Len(stored[a]))>>

(* replay_account_events: a third read, whose events are sent one by one.  *)
ReplayAccountEvents(w) ==
    /\ wpc[w] = "reading"
    /\ \/ /\ sending' = [sending EXCEPT ![w] = Singles(current[w])]
          /\ Goto(w, "sending")
       \/ Faults /\ Goto(w, "failed") /\ UNCHANGED sending
    /\ UNCHANGED <<stored, events, dlq, dlq_task, recoveryState,
                   strategy, todo, current, read>>

(* update_account_cache and handle_cache_update_failure: only an update    *)
(* that succeeds at once takes the account off the list.                   *)
UpdateAccountCache(w) ==
    /\ wpc[w] = "cache"
    /\ \/ /\ accounts_in_recovery' = accounts_in_recovery \ {current[w]}
          /\ Goto(w, "next") /\ UNCHANGED <<strategy, todo, current, read, sending>>
       \/ /\ Faults /\ UNCHANGED accounts_in_recovery
          /\ Goto(w, "next") /\ UNCHANGED <<strategy, todo, current, read, sending>>
       \/ Faults /\ Finish(w) /\ UNCHANGED accounts_in_recovery
    /\ UNCHANGED <<stored, events, dlq, dlq_task, is_recovering>>

(* The end of start_recovery.  The loop calls it through                   *)
(* KafkaRecoveryTrait, whose version leaves RecoveryState as it is.        *)
RecoveryEnds(w) ==
    /\ w \in Recoveries /\ wpc[w] = "next" /\ todo[w] = {}
    /\ Finish(w)
    /\ is_recovering' = (is_recovering /\ w = Loop)
    /\ accounts_in_recovery' = IF w = Loop THEN accounts_in_recovery ELSE {}
    /\ UNCHANGED <<stored, events, dlq, dlq_task>>

-----------------------------------------------------------------------------
(* execute_recovery, for one account that has events or for all of them.   *)
ExecuteRecovery(w) ==
    LET known == {a \in Accounts : stored[a] # <<>>} IN
    /\ w \in Strategists /\ wpc[w] = "idle" /\ starts < MaxStarts
    /\ starts' = starts + 1
    /\ \E s \in Strategies :
          /\ strategy' = [strategy EXCEPT ![w] = s]
          /\ selective' = IF s = "SelectiveReplay" THEN selective + 1 ELSE selective
          /\ \E accounts \in {known} \cup {{a} : a \in known} :
                todo' = [todo EXCEPT ![w] = IF s = "DLQOnly" THEN {} ELSE accounts]
          /\ wpc' = [wpc EXCEPT ![w] = IF s = "DLQOnly" THEN "dlq" ELSE "next"]
    /\ UNCHANGED <<stored, events, dlq, dlq_task, loopVars, recoveryState,
                   current, read, sending>>

(* full_replay and selective_replay read an account's events and send      *)
(* them; incremental_replay first asks the consumer for a version.         *)
ReplayAccount(w) ==
    /\ w \in Strategists /\ wpc[w] = "next" /\ todo[w] # {}
    /\ \/ /\ \E a \in todo[w] :
                /\ todo' = [todo EXCEPT ![w] = @ \ {a}]
                /\ sending' = [sending EXCEPT ![w] =
                                 CASE strategy[w] = "FullReplay" -> Singles(a)
                                   [] strategy[w] = "SelectiveReplay" -> Whole(a)
                                   [] OTHER -> <<>>]
          /\ Goto(w, IF strategy[w] = "IncrementalReplay" THEN "scanning" ELSE "sending")
          /\ UNCHANGED <<strategy, current, read>>
       \/ Faults /\ Finish(w)
    /\ UNCHANGED <<stored, events, dlq, dlq_task, recoveryState>>

ReplayEnds(w) ==
    /\ w \in Strategists /\ wpc[w] = "next" /\ todo[w] = {}
    /\ Finish(w)
    /\ UNCHANGED <<stored, events, dlq, dlq_task, recoveryState>>

(* send_event_batch.  A send that fails may still have reached the topic.  *)
(* It ends a strategy; a recovery writes a dead letter for the account.    *)
SendEventBatch(w) ==
    /\ wpc[w] = "sending" /\ sending[w] # <<>>
    /\ \/ /\ events' = Append(events, Head(sending[w]))
          /\ sending' = [sending EXCEPT ![w] = Tail(@)]
          /\ UNCHANGED <<loopVars, wpc, starts, selective, strategy, todo, current, read>>
       \/ /\ Faults
          /\ events' \in {events, Append(events, Head(sending[w]))}
          /\ IF w \in Strategists
               THEN Finish(w)
               ELSE /\ Goto(w, "failed")
                    /\ sending' = [sending EXCEPT ![w] = <<>>]
                    /\ UNCHANGED <<strategy, todo, current, read>>
    /\ UNCHANGED <<stored, dlq, dlq_task, recoveryState>>

AllSent(w) ==
    /\ wpc[w] = "sending" /\ sending[w] = <<>>
    /\ Goto(w, IF w \in Strategists THEN "next" ELSE "cache")
    /\ UNCHANGED <<stored, events, dlq, dlq_task, recoveryState,
                   strategy, todo, current, read, sending>>

(* get_last_processed_version reads the events topic until the stream      *)
(* ends, which only an error makes it do.  (It also assigns partition 0 to *)
(* the shared consumer: the topic is taken to have one partition.)         *)
GetLastProcessedVersion(w) ==
    /\ wpc[w] = "scanning"
    /\ \/ events # <<>> /\ events' = Tail(events) /\ UNCHANGED <<loopVars, workVars>>
       \/ Faults /\ Finish(w) /\ UNCHANGED events
    /\ UNCHANGED <<stored, dlq, dlq_task, recoveryState>>

(* dlq_recovery: process_dlq polls for ever, until a poll fails or the     *)
(* message is not a dead letter - and none of the events topic is one.     *)
DlqRecovery(w) ==
    /\ wpc[w] = "dlq"
    /\ \/ events # <<>> /\ events' = Tail(events)
       \/ Faults /\ UNCHANGED events
    /\ Finish(w)
    /\ UNCHANGED <<stored, dlq, dlq_task, recoveryState>>

-----------------------------------------------------------------------------
Processing ==
    StartProcessing \/ PollEvents \/ SaveEvents \/ UpdateCaches \/ SendToDlq \/ ProcessDlq

Recovery(w) ==
    \/ GetAllAccounts(w) \/ NextAccount(w) \/ VerifyAccountEvents(w)
    \/ HandleFailure(w) \/ ReplayAccountEvents(w) \/ UpdateAccountCache(w) \/ RecoveryEnds(w)

Replay(w) ==
    \/ ReplayAccount(w) \/ ReplayEnds(w)
    \/ GetLastProcessedVersion(w) \/ DlqRecovery(w)

Work(w) == Recovery(w) \/ Replay(w) \/ SendEventBatch(w) \/ AllSent(w)

Next ==
    \/ Processing
    \/ \E w \in Workers : Work(w)
    \/ \E w \in Recoveries : StartRecovery(w)
    \/ \E w \in Strategists : ExecuteRecovery(w)

Spec == Init /\ [][Next]_vars

(* The tasks the runtime polls go on; nobody has to start a recovery.      *)
FairSpec ==
    /\ Spec
    /\ WF_vars(Processing)
    /\ \A w \in Workers : WF_vars(Work(w))

-----------------------------------------------------------------------------
Messages ==
    [account : Accounts \cup {Nobody}, events : Seq(Nat), version : Nat]

(* Every variable keeps its type.                                          *)
TypeOK ==
    /\ stored \in [Accounts -> Seq(Nat)]
    /\ events \in Seq(Messages)
    /\ dlq \in Seq([message : Messages, retry_count : Nat])
    /\ lpc \in {"off", "polling", "saving", "caching", "dead", "recovering", "stopped"}
    /\ batch \in Messages
    /\ dlq_task \in {"off", "polling", "ended"}
    /\ is_recovering \in BOOLEAN /\ accounts_in_recovery \subseteq Accounts
    /\ wpc \in [Workers -> {"idle", "accounts", "next", "verifying", "failed", "reading",
                             "sending", "cache", "scanning", "dlq"}]
    /\ strategy \in [Workers -> Strategies \cup {"Recovery"}]
    /\ todo \in [Workers -> SUBSET Accounts]
    /\ current \in [Workers -> Accounts \cup {Nobody}]
    /\ read \in [Workers -> Nat]
    /\ sending \in [Workers -> Seq(Messages)]
    /\ starts \in 0 .. MaxStarts /\ selective \in 0 .. starts
    /\ {polled, done, dead} \subseteq Nat

(* Every batch the processing loop consumed was processed, is in the dead  *)
(* letter topic, or is the one in hand - also when the loop has stopped    *)
(* because the dead letter could not be sent.                              *)
NothingDropped ==
    polled = done + dead + (IF lpc \in {"saving", "caching", "dead", "stopped"} THEN 1 ELSE 0)

(* At most one recovery is at work, whether the processing loop or a       *)
(* caller started it, and the account it works on is in recovery.          *)
OneRecovery ==
    /\ \A v, w \in Recoveries : wpc[v] # "idle" /\ wpc[w] # "idle" => v = w
    /\ \A w \in Recoveries :
          wpc[w] \in {"verifying", "reading", "sending", "cache"} =>
              current[w] \in accounts_in_recovery

(* n, doubled k times.                                                     *)
Doubled(n, k) ==
    LET times[i \in 0 .. k] == IF i = 0 THEN n ELSE 2 * times[i - 1]
    IN  times[k]

(* A replay sends events with the versions they are stored under.  Of the  *)
(* messages of one replay only the last can be current when the loop gets  *)
(* to it, and only once: a full replay or a recovery adds at most one      *)
(* event to a history; a selective replay, which sends the history as one  *)
(* message, at most doubles it; and what raced with another is refused.    *)
GrowthBound ==
    \A a \in Accounts :
        Len(stored[a]) =< Doubled(InitialEvents[a] + starts - selective, selective)

(* The loop comes back to the topic, also from the recoveries it runs      *)
(* itself: unread messages are consumed unless the loop has stopped.       *)
TopicIsDrained == events # <<>> ~> (events = <<>> \/ lpc = "stopped")
=============================================================================
