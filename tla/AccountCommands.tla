--------------------------- MODULE AccountCommands ---------------------------
(***************************************************************************)
(* The write side of the application layer, over the contract of the event *)
(* store (OptimisticLog): the commands of AccountCommandHandler            *)
(* (application/handlers.rs) and of AccountService                         *)
(* (application/services.rs), AccountRepository between them and the       *)
(* store, and the account aggregate (domain/account.rs) that decides.      *)
(*                                                                         *)
(* A command reads the aggregate's events, rebuilds the account, decides   *)
(* and offers one event to the store together with an expected version;    *)
(* other commands run between the read and the store's answer.  The two    *)
(* front ends differ: the service filters duplicates by account id,        *)
(* applies the event before it saves, and saves a new account under the    *)
(* id of Account::default().                                               *)
(***************************************************************************)
EXTENDS Integers, Sequences, FiniteSets, Functions

CONSTANTS
    Handlers,           \* concurrent calls of AccountCommandHandler
    Services,           \* concurrent calls of AccountService
    Deployments,        \* the sets of them that may run together
    Ids,                \* account ids: Uuid::new_v4 draws an unused one
    Amounts,            \* amounts of commands
    InitialEvents,      \* events stored for each account at start-up
    MaxEvents           \* bound on the events stored when a command starts

Tasks == Handlers \cup Services

(* Each of the tasks that started in time may store one event more.        *)
MaxVersion == MaxEvents + Cardinality(Tasks)

Kinds == {"create", "deposit", "withdraw", "close"}
Commands == [kind : Kinds \ {"close"}, id : Ids, amount : Amounts]
                \cup [kind : {"close"}, id : Ids, amount : {0}]
EventOf == [create |-> "AccountCreated", deposit |-> "MoneyDeposited",
            withdraw |-> "MoneyWithdrawn", close |-> "AccountClosed"]
Events == [type : {EventOf[k] : k \in Kinds}, amount : Amounts \cup {0}]

ASSUME AccountCommandsAssumption ==
    /\ Handlers \cap Services = {} /\ IsFiniteSet(Tasks)
    /\ Deployments \subseteq SUBSET Tasks
    /\ Amounts \subseteq Int
    /\ InitialEvents \in [Ids -> Seq(Events)]
    /\ MaxEvents \in Nat

VARIABLES
    running,        \* the tasks of this execution
    stored,         \* the event store: the events of each account, by version
    stage, call, reply,     \* each task's call of save_events (OptimisticLog)
    command,        \* the command each task executes
    loading,        \* service tasks past the duplicate check, before get_by_id
    command_cache,  \* the ids is_duplicate_command has seen
    issued          \* ids drawn so far

callVars == <<stage, call, reply>>
vars == <<running, stored, callVars, command, loading, command_cache, issued>>

Store == INSTANCE OptimisticLog WITH
            Requests <- Tasks,
            Aggregates <- Ids,
            CallsOf <- [t \in Tasks |->
                [agg : Ids, expected : 0 .. MaxVersion + 1, count : {1}]],
            InitialRows <- [i \in Ids |-> 1 .. Len(InitialEvents[i])],
            log <- [i \in Ids |-> 1 .. Len(stored[i])]

(* The domain: Account, apply_event and handle_command.                    *)
Default == [balance |-> 0, is_active |-> FALSE, version |-> 0]

ApplyEvent(account, event) ==
    [balance |-> CASE event.type = "AccountCreated" -> event.amount
                   [] event.type = "MoneyDeposited" -> account.balance + event.amount
                   [] event.type = "MoneyWithdrawn" -> account.balance - event.amount
                   [] OTHER -> account.balance,
     is_active |-> CASE event.type = "AccountCreated" -> TRUE
                     [] event.type = "AccountClosed" -> FALSE
                     [] OTHER -> account.is_active,
     version |-> account.version + 1]

(* Mutant: handle_command without the test of the balance.                 *)
AcceptsOverdraft(account, kind, amount) ==
    /\ account.is_active \/ kind = "create"
    /\ kind = "create" => amount >= 0
    /\ kind \in {"deposit", "withdraw"} => amount > 0

(* handle_command answers with one event, EventOf[kind], or with an error. *)
Accepts(account, kind, amount) ==
    /\ account.is_active \/ kind = "create"
    /\ kind = "create" => amount >= 0
    /\ kind \in {"deposit", "withdraw"} => amount > 0
    /\ kind = "withdraw" => account.balance >= amount

(* AccountRepository::get_by_id: the account after each of the events.     *)
Replay(events) ==
    LET account[n \in 0 .. Len(events)] ==
            IF n = 0 THEN Default ELSE ApplyEvent(account[n - 1], events[n])
    IN  account[Len(events)]

(* A history that commands run one after the other produce: the account is *)
(* created once and first, nothing follows its closing, and its balance is *)
(* never negative.                                                         *)
Serial(history) ==
    \A n \in 1 .. Len(history) :
        LET upTo(m) == Replay(SubSeq(history, 1, m))
        IN  /\ history[n].type = "AccountCreated" <=> n = 1
            /\ n > 1 => upTo(n - 1).is_active
            /\ upTo(n).balance >= 0

(* So are the histories that a process finds in the store when it starts.  *)
ASSUME InitialEventsSerial == \A i \in Ids : Serial(InitialEvents[i])

Event(c) == [type |-> EventOf[c.kind], amount |-> c.amount]

NoCommand == CHOOSE c \in Commands : TRUE

Init ==
    /\ running \in Deployments
    /\ stored = InitialEvents
    /\ Store!LogInit
    /\ command = [t \in Tasks |-> NoCommand]
    /\ loading = {}
    /\ command_cache = {}
    /\ issued = {i \in Ids : InitialEvents[i] # <<>>}

(* The locals of the calls that are over.                                  *)
Forget ==
    LET over == {t \in Tasks : stage'[t] = "idle" /\ t \notin loading'} IN
    command' = [t \in Tasks |-> IF t \in over THEN NoCommand ELSE command[t]]

(* The bound, for a command that would store an event.                     *)
HasRoom == FoldFunction(LAMBDA events, n : Len(events) + n, 0, stored) < MaxEvents

Busy(t) == stage[t] # "idle" \/ t \in loading
Free(t) == t \in running /\ ~Busy(t) /\ HasRoom

(* AccountRepository::save.                                                *)
Save(t, c, id, version) ==
    /\ UNCHANGED stored
    /\ Store!Invoke(t)
    /\ call'[t] = [agg |-> id, expected |-> version, count |-> 1]
    /\ command' = [command EXCEPT ![t] = c]

HandleCreateAccount(t, id, amount) ==
    /\ Free(t)
    /\ id \notin issued
    /\ Accepts(Default, "create", amount)
    /\ issued' = issued \cup {id}
    /\ Save(t, [kind |-> "create", id |-> id, amount |-> amount], id, 0)
    /\ UNCHANGED <<loading, command_cache>>

(* AccountService::create_account.  The fresh id passes the duplicate      *)
(* check and stays in the cache, also when the balance is refused; the     *)
(* account that is saved is Account::default(), with an id of its own.     *)
CreateAccount(t, id, amount) ==
    /\ Free(t)
    /\ id \notin issued
    /\ command_cache' = command_cache \cup {id}
    /\ IF Accepts(Default, "create", amount)
         THEN \E default_id \in Ids \ (issued \cup {id}) :
                 /\ issued' = issued \cup {id, default_id}
                 /\ Save(t, [kind |-> "create", id |-> id, amount |-> amount], default_id, 0)
         ELSE /\ issued' = issued \cup {id}
              /\ UNCHANGED <<stored, callVars, command>>
    /\ UNCHANGED loading

(* Mutant: the service, too, expects the version it read.                  *)
ExpectedAsRead(t, account) == account.version

(* The service applies the event to the account it then saves; the         *)
(* handlers save the account as they read it.                              *)
Expected(t, account) ==
    IF t \in Services THEN account.version + 1 ELSE account.version

(* get_by_id, handle_command and the call of save; the command ends here   *)
(* when there is no such account or handle_command refuses.                *)
LoadAndDecide(t, c) ==
    LET account == Replay(stored[c.id]) IN
    IF stored[c.id] # <<>> /\ Accepts(account, c.kind, c.amount)
      THEN Save(t, c, c.id, Expected(t, account))
      ELSE UNCHANGED <<stored, callVars, command>>

(* handle_deposit_money, handle_withdraw_money, handle_close_account.      *)
HandleCommand(t, c) ==
    /\ Free(t)
    /\ c.kind # "create"
    /\ LoadAndDecide(t, c)
    /\ UNCHANGED <<loading, command_cache, issued>>

(* Mutant: a check that does not remember the command.                     *)
CheckForgets(t, c) ==
    /\ Free(t)
    /\ c.kind \in {"deposit", "withdraw"}
    /\ c.id \notin command_cache
    /\ command' = [command EXCEPT ![t] = c]
    /\ loading' = loading \cup {t}
    /\ UNCHANGED <<stored, callVars, command_cache, issued>>

(* deposit_money, withdraw_money: is_duplicate_command, under its lock,    *)
(* before anything else.  It is given the account's id, and what it enters *)
(* is never removed; a command it refuses changes nothing.                 *)
CheckDuplicate(t, c) ==
    /\ Free(t)
    /\ c.kind \in {"deposit", "withdraw"}
    /\ c.id \notin command_cache
    /\ command_cache' = command_cache \cup {c.id}
    /\ command' = [command EXCEPT ![t] = c]
    /\ loading' = loading \cup {t}
    /\ UNCHANGED <<stored, callVars, issued>>

ServiceLoad(t) ==
    /\ t \in loading
    /\ loading' = loading \ {t}
    /\ LoadAndDecide(t, command[t])
    /\ UNCHANGED <<command_cache, issued>>

(* The store accepts or refuses calls that wait for it.                    *)
StoreAccepts(t) ==
    /\ Store!Unanswered(t)
    /\ stored' = [stored EXCEPT ![call[t].agg] = Append(@, Event(command[t]))]
    /\ Store!Succeed(t)
    /\ UNCHANGED <<loading, command_cache, issued>>
    /\ Forget

StoreRefuses(S) ==
    /\ UNCHANGED stored
    /\ Store!Refuse(S)
    /\ UNCHANGED <<loading, command_cache, issued>>
    /\ Forget

(* The command returns.  A service command whose event is stored goes to   *)
(* the projections first, and that call does not return (see Abort).       *)
CommandReturns(t) ==
    /\ t \in Services => reply[t] # "ok"
    /\ UNCHANGED stored
    /\ Store!Return(t)
    /\ UNCHANGED <<loading, command_cache, issued>>
    /\ Forget

(* The process ends and is started again: the store keeps its events, and  *)
(* the calls, what the store had not yet done for them, and the commands   *)
(* is_duplicate_command has seen are gone.                                 *)
Restart ==
    /\ stage' = [t \in Tasks |-> "idle"]
    /\ call' = [t \in Tasks |-> Store!NoCall(t)]
    /\ reply' = [t \in Tasks |-> "none"]
    /\ command' = [t \in Tasks |-> NoCommand]
    /\ loading' = {}
    /\ command_cache' = {}
    /\ UNCHANGED <<stored, issued>>

(* upsert_accounts_batch and insert_transactions_batch of ProjectionStore  *)
(* call themselves until the stack is used up, which ends the process.     *)
Abort(t) == t \in Services /\ stage[t] = "answered" /\ reply[t] = "ok" /\ Restart

(* The process is killed.                                                  *)
Crash == (\E t \in running : Busy(t)) /\ Restart

(* The client is gone and the handler's future is dropped.                 *)
Disconnect(t) ==
    /\ UNCHANGED <<stored, command_cache, issued>>
    /\ \/ Store!Abandon(t) /\ UNCHANGED loading
       \/ t \in loading /\ loading' = loading \ {t} /\ UNCHANGED callVars
    /\ Forget

(* Nobody names an id before it is drawn: Uuid::new_v4 repeats none.       *)
Nameable == {c \in Commands : c.id \in issued}

HandlerStep(t) ==
    \/ \E id \in Ids, amount \in Amounts : HandleCreateAccount(t, id, amount)
    \/ \E c \in Nameable : HandleCommand(t, c)

ServiceStep(t) ==
    \/ \E id \in Ids, amount \in Amounts : CreateAccount(t, id, amount)
    \/ \E c \in Nameable : CheckDuplicate(t, c)
    \/ ServiceLoad(t)

Step ==
    \/ \E t \in Handlers : HandlerStep(t)
    \/ \E t \in Services : ServiceStep(t)
    \/ \E t \in Tasks : StoreAccepts(t) \/ CommandReturns(t) \/ Abort(t) \/ Disconnect(t)
    \/ \E S \in (SUBSET Tasks) \ {{}} : StoreRefuses(S)
    \/ Crash

Next == Step /\ UNCHANGED running

Spec == Init /\ [][Next]_vars

-----------------------------------------------------------------------------
(* Commands interleave at will and decide on accounts that may be stale by *)
(* the time they save; still every stored history is one that commands run *)
(* one after the other produce.  This is so in the handlers and in the     *)
(* service, not when both of them work on the same accounts.               *)
HistoriesAreSerial ==
    running \subseteq Handlers \/ running \subseteq Services =>
        \A i \in Ids : Serial(stored[i])

(* Past the duplicate check, a service command has its account to itself:  *)
(* no other service command is between the check and its answer.           *)
OneCommandPerAccount ==
    \A t, u \in Services :
        t # u /\ Busy(t) /\ Busy(u) => command[t].id # command[u].id

(* deposit_money and withdraw_money apply the event before they save, so   *)
(* the version they expect is one ahead of what they read; the store takes *)
(* it only if somebody else has written in between.  In the service alone  *)
(* nobody has, and no such command ever succeeds.                          *)
ServiceSavesNothing ==
    running \subseteq Services =>
    \A t \in Services :
        stage[t] = "answered" /\ reply[t] = "ok" => command[t].kind = "create"
=============================================================================
