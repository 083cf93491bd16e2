---------------------------- MODULE Projections ----------------------------
(***************************************************************************)
(* ProjectionStore (src/src/infrastructure/projections.rs): the task that  *)
(* gathers updates and flushes them to the projection tables in one        *)
(* transaction, and the readers that go through the two caches.            *)
(*                                                                         *)
(* An account projection is an account and a value, a transaction          *)
(* projection an id; the list of an account is the set of its ids.  Time   *)
(* passes in ticks.  The senders of updates are external: the store makes  *)
(* the channel and the task, and no code in src/ sends yet.                *)
(***************************************************************************)
EXTENDS Integers, Sequences, FiniteSets, Functions

CONSTANTS
    Accounts, Values,
    NoRow,              \* no row, or no entry
    Transactions,
    AccountOf,          \* the account of a transaction
    Updates,            \* what senders send: accounts or transactions
    Readers,            \* concurrent readers, of accounts and of lists
    batch_size,         \* ProjectionConfig
    batch_timeout,      \* in ticks
    cache_ttl,          \* of entries a read inserts, in ticks
    flush_ttl,          \* of entries a flush inserts, in ticks
    MaxChannel,         \* bound: updates sent and not yet received
    MaxBatch,           \* bound: account updates gathered
    MaxFaults           \* bound: database statements that fail

ASSUME ProjectionsAssumption ==
    /\ NoRow \notin Values
    /\ AccountOf \in [Transactions -> Accounts]
    /\ Updates \subseteq [accounts : Seq(Accounts \X Values), transactions : Seq(Transactions)]
    /\ batch_size \in Nat \ {0}
    /\ batch_timeout \in Nat
    /\ cache_ttl \in Nat
    /\ flush_ttl \in Nat
    /\ MaxChannel \in Nat /\ MaxBatch \in Nat /\ MaxFaults \in Nat

VARIABLES
    channel,                            \* sent, not yet received
    account_batch, transaction_batch,   \* received, not yet flushed
    since,                              \* ticks since last_flush, up to batch_timeout
    fpc,                                \* what the task does next
    tx,                                 \* what its transaction has written
    rows, transactionRows,              \* account_projections, transaction_projections
    account_cache, transaction_cache,   \* what they hold, and for how many ticks more
    getting, listing,                   \* the readers in get_account, get_account_transactions
    faults

batchVars == <<channel, account_batch, transaction_batch, since, fpc, tx>>
tableVars == <<rows, transactionRows>>
cacheVars == <<account_cache, transaction_cache>>
readVars == <<getting, listing>>
vars == <<batchVars, tableVars, cacheVars, readVars, faults>>

NoWrites == [accounts |-> <<>>, transactions |-> {}]

(* An entry whose time is over is as good as none.                         *)
NoEntry == [data |-> NoRow, left |-> 0]

NoList == [data |-> {}, left |-> 0]

Idle == [pc |-> "idle"]

ListOf(a) == {t \in transactionRows : AccountOf[t] = a}

Init ==
    /\ channel = <<>>
    /\ account_batch = <<>> /\ transaction_batch = <<>>
    /\ since = 0
    /\ fpc = "recv"
    /\ tx = NoWrites
    /\ rows = [a \in Accounts |-> NoRow] /\ transactionRows = {}
    /\ account_cache = [a \in Accounts |-> NoEntry]
    /\ transaction_cache = [a \in Accounts |-> NoList]
    /\ getting = [r \in Readers |-> Idle]
    /\ listing = [r \in Readers |-> Idle]
    /\ faults = 0

(* The database, or the connection to it, fails.                           *)
Fault == faults < MaxFaults /\ faults' = faults + 1

(***************************************************************************)
(* The task that flushes                                                   *)
(***************************************************************************)
Send(u) ==
    /\ Len(channel) < MaxChannel
    /\ Len(account_batch) < MaxBatch
    /\ channel' = Append(channel, u)
    /\ UNCHANGED <<account_batch, transaction_batch, since, fpc, tx,
                   tableVars, cacheVars, readVars, faults>>

(* Mutant: the size of the account batch alone decides, and transactions   *)
(* are gathered once.                                                      *)
RecvCountingAccounts ==
    LET u == Head(channel) IN
    /\ fpc = "recv" /\ channel # <<>>
    /\ channel' = Tail(channel)
    /\ account_batch' = account_batch \o u.accounts
    /\ transaction_batch' =
          transaction_batch \o SelectSeq(u.transactions,
                                      LAMBDA t : t \notin Range(transaction_batch))
    /\ fpc' = IF Len(account_batch') >= batch_size THEN "begin" ELSE "recv"
    /\ UNCHANGED <<since, tx, tableVars, cacheVars, readVars, faults>>

(* Mutant: an update replaces the batch it should extend.                  *)
RecvReplaces ==
    LET u == Head(channel) IN
    /\ fpc = "recv" /\ channel # <<>>
    /\ channel' = Tail(channel)
    /\ account_batch' = IF u.accounts = <<>> THEN account_batch ELSE u.accounts
    /\ transaction_batch' = IF u.transactions = <<>> THEN transaction_batch ELSE u.transactions
    /\ fpc' = IF since >= batch_timeout THEN "begin" ELSE "recv"
    /\ UNCHANGED <<since, tx, tableVars, cacheVars, readVars, faults>>

(* update_processor: sizes and time are looked at when an update arrives,  *)
(* and only then.                                                          *)
Recv ==
    LET u == Head(channel) IN
    /\ fpc = "recv" /\ channel # <<>>
    /\ channel' = Tail(channel)
    /\ account_batch' = account_batch \o u.accounts
    /\ transaction_batch' = transaction_batch \o u.transactions
    /\ fpc' = IF \/ Len(account_batch') >= batch_size
                 \/ Len(transaction_batch') >= batch_size
                 \/ since >= batch_timeout
                THEN "begin" ELSE "recv"
    /\ UNCHANGED <<since, tx, tableVars, cacheVars, readVars, faults>>

(* flush_batches returns, with or without an error.                        *)
EndFlush == fpc' = "recv" /\ since' = 0 /\ tx' = NoWrites

FlushBegin ==
    /\ fpc = "begin"
    /\ \/ fpc' = "accounts" /\ UNCHANGED <<since, tx, faults>>
       \/ Fault /\ EndFlush
    /\ UNCHANGED <<channel, account_batch, transaction_batch, tableVars, cacheVars, readVars>>

(* One statement may not update a row twice: the batch is refused when it  *)
(* has an account twice.                                                   *)
Poisoned ==
    \E i, j \in DOMAIN account_batch : i # j /\ account_batch[i][1] = account_batch[j][1]

(* The cache after the inserts of an account batch.                        *)
Cached(batch) ==
    [a \in Accounts |->
        IF \E i \in DOMAIN batch : batch[i][1] = a
          THEN [data |-> batch[CHOOSE i \in DOMAIN batch : batch[i][1] = a][2],
                left |-> flush_ttl]
          ELSE account_cache[a]]

(* Mutant: a batch the database refuses is dropped.                        *)
FlushAccountsDrained ==
    /\ fpc = "accounts"
    /\ \/ ~Poisoned /\ tx' = [tx EXCEPT !.accounts = account_batch]
          /\ account_cache' = Cached(account_batch)
          /\ account_batch' = <<>>
          /\ fpc' = "transactions" /\ UNCHANGED <<since, faults>>
       \/ /\ Poisoned /\ EndFlush
          /\ account_batch' = <<>> /\ UNCHANGED <<account_cache, faults>>
    /\ UNCHANGED <<channel, transaction_batch, tableVars, transaction_cache, readVars>>

(* The upsert; then the batch is drained into the cache.                   *)
FlushAccounts ==
    /\ fpc = "accounts"
    /\ \/ ~Poisoned /\ tx' = [tx EXCEPT !.accounts = account_batch]
          /\ account_cache' = Cached(account_batch)
          /\ account_batch' = <<>>
          /\ fpc' = "transactions" /\ UNCHANGED <<since, faults>>
       \/ /\ account_batch # <<>>
          /\ (Poisoned /\ UNCHANGED faults) \/ Fault
          /\ EndFlush /\ UNCHANGED <<account_batch, account_cache>>
    /\ UNCHANGED <<channel, transaction_batch, tableVars, transaction_cache, readVars>>

(* Mutant: the lists of the affected accounts are extended, not removed.   *)
FlushTransactionsExtends ==
    /\ fpc = "transactions"
    /\ tx' = [tx EXCEPT !.transactions = Range(transaction_batch)]
    /\ transaction_cache' =
          [a \in Accounts |->
              LET new == {t \in Range(transaction_batch) : AccountOf[t] = a}
              IN  IF new = {} \/ transaction_cache[a].left = 0 THEN transaction_cache[a]
                  ELSE [transaction_cache[a] EXCEPT !.data = @ \cup new]]
    /\ transaction_batch' = <<>>
    /\ fpc' = "commit"
    /\ UNCHANGED <<since, faults, channel, account_batch, tableVars, account_cache, readVars>>

(* The insert; then the batch is drained, and the lists of its accounts    *)
(* are dropped from the cache.  A failure takes the account updates of     *)
(* this flush with it: they are no longer in the batch.                    *)
FlushTransactions ==
    /\ fpc = "transactions"
    /\ \/ /\ tx' = [tx EXCEPT !.transactions = Range(transaction_batch)]
          /\ transaction_cache' =
                [a \in Accounts |->
                    IF \E t \in Range(transaction_batch) : AccountOf[t] = a
                      THEN NoList ELSE transaction_cache[a]]
          /\ transaction_batch' = <<>>
          /\ fpc' = "commit" /\ UNCHANGED <<since, faults>>
       \/ /\ transaction_batch # <<>>
          /\ Fault /\ EndFlush /\ UNCHANGED <<transaction_batch, transaction_cache>>
    /\ UNCHANGED <<channel, account_batch, tableVars, account_cache, readVars>>

(* The value the transaction has written for the account.                  *)
Upserted(a) ==
    LET w == tx.accounts IN
    IF \E i \in DOMAIN w : w[i][1] = a THEN w[CHOOSE i \in DOMAIN w : w[i][1] = a][2] ELSE rows[a]

(* The transactions with those it has inserted; an id that is there stays. *)
Inserted == transactionRows \cup tx.transactions

(* A commit that fails may have been carried out.                          *)
FlushCommit ==
    /\ fpc = "commit"
    /\ \/ /\ rows' = [a \in Accounts |-> Upserted(a)]
          /\ transactionRows' = Inserted
          /\ UNCHANGED faults \/ Fault
       \/ UNCHANGED tableVars /\ Fault
    /\ EndFlush
    /\ UNCHANGED <<channel, account_batch, transaction_batch, cacheVars, readVars>>

Processor == Recv \/ FlushBegin \/ FlushAccounts \/ FlushTransactions \/ FlushCommit

(***************************************************************************)
(* Readers                                                                 *)
(***************************************************************************)
(* Mutant: a hit prolongs the entry.                                       *)
GetAccountProlongs(r, a) ==
    /\ getting[r] = Idle
    /\ IF account_cache[a].left > 0
         THEN /\ account_cache' = [account_cache EXCEPT ![a].left = cache_ttl]
              /\ UNCHANGED getting
         ELSE /\ getting' = [getting EXCEPT ![r] = [pc |-> "select", account |-> a]]
              /\ UNCHANGED account_cache
    /\ UNCHANGED <<batchVars, tableVars, transaction_cache, listing, faults>>

(* get_account misses; a hit returns the entry and changes nothing.        *)
GetAccount(r, a) ==
    /\ getting[r] = Idle
    /\ account_cache[a].left = 0
    /\ getting' = [getting EXCEPT ![r] = [pc |-> "select", account |-> a]]
    /\ UNCHANGED <<batchVars, tableVars, cacheVars, listing, faults>>

GetAccountSelect(r) ==
    /\ getting[r].pc = "select"
    /\ LET a == getting[r].account IN
       \/ /\ getting' = [getting EXCEPT ![r] = IF rows[a] = NoRow THEN Idle
                            ELSE [pc |-> "insert", account |-> a, data |-> rows[a]]]
          /\ UNCHANGED faults
       \/ Fault /\ getting' = [getting EXCEPT ![r] = Idle]
    /\ UNCHANGED <<batchVars, tableVars, cacheVars, listing>>

GetAccountInsert(r) ==
    /\ getting[r].pc = "insert"
    /\ account_cache' = [account_cache EXCEPT ![getting[r].account] =
                            [data |-> getting[r].data, left |-> cache_ttl]]
    /\ getting' = [getting EXCEPT ![r] = Idle]
    /\ UNCHANGED <<batchVars, tableVars, transaction_cache, listing, faults>>

(* get_account_transactions misses.                                        *)
GetTransactions(r, a) ==
    /\ listing[r] = Idle
    /\ transaction_cache[a].left = 0
    /\ listing' = [listing EXCEPT ![r] = [pc |-> "select", account |-> a]]
    /\ UNCHANGED <<batchVars, tableVars, cacheVars, getting, faults>>

GetTransactionsSelect(r) ==
    /\ listing[r].pc = "select"
    /\ LET a == listing[r].account IN
       \/ /\ listing' = [listing EXCEPT ![r] =
                            [pc |-> "insert", account |-> a, data |-> ListOf(a)]]
          /\ UNCHANGED faults
       \/ Fault /\ listing' = [listing EXCEPT ![r] = Idle]
    /\ UNCHANGED <<batchVars, tableVars, cacheVars, getting>>

GetTransactionsInsert(r) ==
    /\ listing[r].pc = "insert"
    /\ transaction_cache' = [transaction_cache EXCEPT ![listing[r].account] =
                                [data |-> listing[r].data, left |-> cache_ttl]]
    /\ listing' = [listing EXCEPT ![r] = Idle]
    /\ UNCHANGED <<batchVars, tableVars, account_cache, getting, faults>>

Call(r) == \E a \in Accounts : GetAccount(r, a) \/ GetTransactions(r, a)

ReadAccount(r) == GetAccountSelect(r) \/ GetAccountInsert(r)

ReadTransactions(r) == GetTransactionsSelect(r) \/ GetTransactionsInsert(r)

-----------------------------------------------------------------------------
Tick ==
    /\ since' = IF since < batch_timeout THEN since + 1 ELSE since
    /\ account_cache' = [a \in Accounts |->
          IF account_cache[a].left > 1 THEN [account_cache[a] EXCEPT !.left = @ - 1] ELSE NoEntry]
    /\ transaction_cache' = [a \in Accounts |->
          IF transaction_cache[a].left > 1 THEN [transaction_cache[a] EXCEPT !.left = @ - 1]
          ELSE NoList]
    /\ UNCHANGED <<channel, account_batch, transaction_batch, fpc, tx, tableVars, readVars, faults>>

Next ==
    \/ \E u \in Updates : Send(u)
    \/ Processor
    \/ \E r \in Readers : Call(r) \/ ReadAccount(r) \/ ReadTransactions(r)
    \/ Tick

Spec == Init /\ [][Next]_vars

(* Time passes, and the runtime polls what can go on.                      *)
Fairness ==
    /\ WF_vars(Tick)
    /\ WF_vars(Processor)
    /\ \A r \in Readers : WF_vars(ReadAccount(r)) /\ WF_vars(ReadTransactions(r))

FairSpec == Spec /\ Fairness

-----------------------------------------------------------------------------
(* Every variable keeps its type.                                          *)
TypeOK ==
    /\ channel \in Seq(Updates)
    /\ account_batch \in Seq(Accounts \X Values)
    /\ transaction_batch \in Seq(Transactions)
    /\ since \in 0 .. batch_timeout
    /\ fpc \in {"recv", "begin", "accounts", "transactions", "commit"}
    /\ tx \in [accounts : Seq(Accounts \X Values), transactions : SUBSET Transactions]
    /\ rows \in [Accounts -> Values \cup {NoRow}]
    /\ transactionRows \subseteq Transactions
    /\ account_cache \in [Accounts -> [data : Values \cup {NoRow}, left : Nat]]
    /\ transaction_cache \in [Accounts -> [data : SUBSET Transactions, left : Nat]]
    /\ getting \in [Readers -> {Idle} \cup [pc : {"select"}, account : Accounts]
                              \cup [pc : {"insert"}, account : Accounts, data : Values]]
    /\ listing \in [Readers -> {Idle} \cup [pc : {"select"}, account : Accounts]
                              \cup [pc : {"insert"}, account : Accounts,
                                    data : SUBSET Transactions]]
    /\ faults \in 0 .. MaxFaults

(* A cached list, or one that a reader is about to cache, names only       *)
(* transactions that are in the table and belong to its account: a flush   *)
(* that has not committed, or never will, does not show in the lists.      *)
ListsNotAhead ==
    /\ \A a \in Accounts : transaction_cache[a].data \subseteq ListOf(a)
    /\ \A r \in Readers :
          listing[r].pc = "insert" => listing[r].data \subseteq ListOf(listing[r].account)

(* The updates the task has in hand.                                       *)
AccountsInHand == Range(account_batch) \cup Range(tx.accounts)

TransactionsInHand == Range(transaction_batch) \cup tx.transactions

(* While the database does not fail no update is lost: what leaves the     *)
(* task's hands is in the tables, also when flushes are refused and tried  *)
(* again with what has come since.                                         *)
NothingLostWithoutFault ==
    [][faults' = faults =>
          /\ \A u \in AccountsInHand \ AccountsInHand' : rows'[u[1]] = u[2]
          /\ TransactionsInHand \ TransactionsInHand' \subseteq transactionRows']_vars

(* Two updates of one account that meet in a batch end all flushing: the   *)
(* batch is refused and kept, so that it is refused again, and neither     *)
(* table changes any more.                                                 *)
PoisonedForever ==
    [][Poisoned => Poisoned' /\ UNCHANGED tableVars]_vars

(* When the tables stay as they are the caches come to agree with them,    *)
(* also after a commit that failed behind a filled cache, and after        *)
(* readers that cached what they had read before a commit.                 *)
CachesConverge ==
    <>[][UNCHANGED tableVars]_vars =>
        <>[](\A a \in Accounts :
                /\ account_cache[a].left > 0 => account_cache[a].data = rows[a]
                /\ transaction_cache[a].left > 0 => transaction_cache[a].data = ListOf(a))

(* As long as updates keep coming, a transaction that has been received    *)
(* does not wait for ever for a flush: either batch being full, or the     *)
(* time being over, starts one.                                            *)
UpdatesAreTried ==
    []<><<channel' # channel /\ Len(channel') > Len(channel)>>_vars =>
        \A t \in Transactions : t \in Range(transaction_batch) ~> fpc = "begin"
=============================================================================
