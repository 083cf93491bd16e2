------------------------- MODULE ProjectionsProofs -------------------------
(***************************************************************************)
(* Proofs about Projections, for any accounts, transactions, updates and   *)
(* readers, any configuration and any number of failing statements.        *)
(***************************************************************************)
EXTENDS Projections, SequenceTheorems, TLAPS

(***************************************************************************)
(* Sequences                                                               *)
(***************************************************************************)
(* A sequence that is extended keeps its entries where they are.           *)
LEMMA ConcatKeeps ==
    ASSUME NEW S, NEW s \in Seq(S), NEW t \in Seq(S)
    PROVE  /\ s \o t \in Seq(S)
           /\ \A i \in DOMAIN s : i \in DOMAIN (s \o t) /\ (s \o t)[i] = s[i]
           /\ Range(s) \subseteq Range(s \o t)
  <1>1. /\ s \o t \in Seq(S) /\ Len(s \o t) = Len(s) + Len(t)
        /\ \A i \in 1 .. Len(s) : (s \o t)[i] = s[i]
    BY ConcatProperties
  <1>2. /\ DOMAIN s = 1 .. Len(s) /\ DOMAIN (s \o t) = 1 .. (Len(s) + Len(t))
        /\ Len(s) \in Nat /\ Len(t) \in Nat
    BY <1>1, LenProperties
  <1>3. \A i \in DOMAIN s : i \in DOMAIN (s \o t) /\ (s \o t)[i] = s[i]
    BY <1>1, <1>2
  <1> QED
    BY <1>1, <1>3 DEF Range

(* What a sequence holds.                                                  *)
LEMMA RangeType ==
    ASSUME NEW S, NEW s \in Seq(S)
    PROVE  /\ Range(s) \subseteq S
           /\ \A i \in DOMAIN s : s[i] \in S
           /\ s = <<>> => Range(s) = {}
  BY LenProperties, EmptySeq DEF Range

(* Taking the first entry of a sequence.                                   *)
LEMMA HeadTailType ==
    ASSUME NEW S, NEW s \in Seq(S), s # <<>>
    PROVE  Head(s) \in S /\ Tail(s) \in Seq(S)
  BY HeadTailProperties

LEMMA AppendType ==
    ASSUME NEW S, NEW s \in Seq(S), NEW e \in S
    PROVE  Append(s, e) \in Seq(S)
  BY AppendProperties

(***************************************************************************)
(* The inductive invariant                                                 *)
(***************************************************************************)
(* What the transaction has written tells how far the flush is, a batch    *)
(* that has been written is empty, and no account is written twice.        *)
TxShape ==
    /\ fpc \in {"recv", "begin", "accounts"} => tx = NoWrites
    /\ fpc = "transactions" => tx.transactions = {}
    /\ fpc \in {"transactions", "commit"} => account_batch = <<>>
    /\ fpc = "commit" => transaction_batch = <<>>
    /\ \A i, j \in DOMAIN tx.accounts : tx.accounts[i][1] = tx.accounts[j][1] => i = j

Inv == TypeOK /\ TxShape /\ ListsNotAhead

LEMMA NoWritesType ==
    /\ NoWrites \in [accounts : Seq(Accounts \X Values), transactions : SUBSET Transactions]
    /\ NoWrites.accounts = <<>> /\ NoWrites.transactions = {}
    /\ DOMAIN NoWrites.accounts = {}
  BY EmptySeq DEF NoWrites

LEMMA InitInv == Init => Inv
  <1> SUFFICES ASSUME Init PROVE Inv
    OBVIOUS
  <1>1. TypeOK
    BY ProjectionsAssumption, NoWritesType, EmptySeq
       DEF Init, TypeOK, NoEntry, NoList
  <1>2. TxShape
    BY NoWritesType DEF Init, TxShape
  <1>3. ListsNotAhead
    BY DEF Init, ListsNotAhead, NoList, Idle, ListOf
  <1> QED
    BY <1>1, <1>2, <1>3 DEF Inv

(***************************************************************************)
(* Each step keeps the invariant                                           *)
(***************************************************************************)
(* The lists stay behind the table when it grows and the rest stays.       *)
LEMMA ListsFrame ==
    ASSUME Inv, transactionRows \subseteq transactionRows',
           UNCHANGED <<transaction_cache, listing>>
    PROVE  ListsNotAhead'
  BY DEF Inv, ListsNotAhead, ListOf

LEMMA SendInv ==
    ASSUME Inv, NEW u \in Updates, Send(u)
    PROVE  Inv'
  <1>1. channel' \in Seq(Updates)
    BY AppendType DEF Inv, TypeOK, Send
  <1>2. UNCHANGED <<account_batch, transaction_batch, since, fpc, tx, tableVars, cacheVars,
                    readVars, faults>>
    BY DEF Send
  <1>3. TypeOK'
    BY <1>1, <1>2 DEF Inv, TypeOK, tableVars, cacheVars, readVars
  <1> QED
    BY <1>2, <1>3, ListsFrame DEF Inv, TxShape, tableVars, cacheVars, readVars

(* Receiving extends the batches.                                          *)
LEMMA RecvInv ==
    ASSUME Inv, Recv
    PROVE  Inv'
  <1> DEFINE u == Head(channel)
  <1>1. u \in Updates /\ channel' \in Seq(Updates)
    BY HeadTailType DEF Inv, TypeOK, Recv
  <1>2. u.accounts \in Seq(Accounts \X Values) /\ u.transactions \in Seq(Transactions)
    <2> HIDE DEF u
    <2> QED  BY <1>1, ProjectionsAssumption
  <1>3. /\ account_batch' = account_batch \o u.accounts
        /\ transaction_batch' = transaction_batch \o u.transactions
        /\ fpc = "recv" /\ fpc' \in {"begin", "recv"}
        /\ UNCHANGED <<since, tx, tableVars, cacheVars, readVars, faults>>
    BY DEF Recv
  <1> HIDE DEF u
  <1>4. account_batch' \in Seq(Accounts \X Values) /\ transaction_batch' \in Seq(Transactions)
    BY <1>2, <1>3, ConcatKeeps DEF Inv, TypeOK
  <1>5. TypeOK'
    BY <1>1, <1>3, <1>4, ZenonT(30) DEF Inv, TypeOK, tableVars, cacheVars, readVars
  <1>6. TxShape'
    BY <1>3 DEF Inv, TxShape
  <1> QED
    BY <1>3, <1>5, <1>6, ListsFrame DEF Inv, tableVars, cacheVars, readVars

(* A flush that ends has written nothing yet, or no longer.                *)
LEMMA EndFlushShape ==
    ASSUME EndFlush
    PROVE  TxShape'
  BY NoWritesType DEF EndFlush, TxShape

LEMMA FaultType ==
    ASSUME Inv, Fault
    PROVE  faults' \in 0 .. MaxFaults /\ faults' # faults
  BY ProjectionsAssumption DEF Inv, TypeOK, Fault

LEMMA EndFlushType ==
    ASSUME Inv, EndFlush
    PROVE  /\ since' \in 0 .. batch_timeout
           /\ fpc' \in {"recv", "begin", "accounts", "transactions", "commit"}
           /\ tx' \in [accounts : Seq(Accounts \X Values), transactions : SUBSET Transactions]
  BY NoWritesType, ProjectionsAssumption DEF EndFlush

LEMMA FlushBeginInv ==
    ASSUME Inv, FlushBegin
    PROVE  Inv'
  <1>1. UNCHANGED <<channel, account_batch, transaction_batch, tableVars, cacheVars, readVars>>
    BY DEF FlushBegin
  <1>2. TxShape'
    BY <1>1, EndFlushShape DEF FlushBegin, Inv, TxShape
  <1>3. TypeOK'
    <2>1. CASE fpc' = "accounts" /\ UNCHANGED <<since, tx, faults>>
      BY <1>1, <2>1 DEF Inv, TypeOK, tableVars, cacheVars, readVars
    <2>2. CASE Fault /\ EndFlush
      BY <1>1, <2>2, FaultType, EndFlushType, ZenonT(30)
         DEF Inv, TypeOK, tableVars, cacheVars, readVars
    <2> QED
      BY <2>1, <2>2 DEF FlushBegin
  <1> QED
    BY <1>1, <1>2, <1>3, ListsFrame DEF Inv, tableVars, cacheVars, readVars

(* The first entry of an account in a batch is a value.                    *)
LEMMA EntryType ==
    ASSUME NEW batch \in Seq(Accounts \X Values), NEW a,
           \E i \in DOMAIN batch : batch[i][1] = a
    PROVE  /\ (CHOOSE i \in DOMAIN batch : batch[i][1] = a) \in DOMAIN batch
           /\ batch[CHOOSE i \in DOMAIN batch : batch[i][1] = a][1] = a
           /\ batch[CHOOSE i \in DOMAIN batch : batch[i][1] = a][2] \in Values
  <1> DEFINE c == CHOOSE i \in DOMAIN batch : batch[i][1] = a
  <1>1. c \in DOMAIN batch /\ batch[c][1] = a
    OBVIOUS
  <1>2. batch[c] \in Accounts \X Values
    BY <1>1, RangeType
  <1> HIDE DEF c
  <1>3. batch[c][2] \in Values
    BY <1>2
  <1> QED
    BY <1>1, <1>3 DEF c

LEMMA CachedType ==
    ASSUME Inv
    PROVE  Cached(account_batch) \in [Accounts -> [data : Values \cup {NoRow}, left : Nat]]
  <1> SUFFICES ASSUME NEW a \in Accounts
               PROVE  (IF \E i \in DOMAIN account_batch : account_batch[i][1] = a
                         THEN [data |-> account_batch[CHOOSE i \in DOMAIN account_batch :
                                                         account_batch[i][1] = a][2],
                               left |-> flush_ttl]
                         ELSE account_cache[a]) \in [data : Values \cup {NoRow}, left : Nat]
    BY DEF Cached
  <1>1. CASE \E i \in DOMAIN account_batch : account_batch[i][1] = a
    <2> DEFINE v == account_batch[CHOOSE i \in DOMAIN account_batch : account_batch[i][1] = a][2]
    <2>1. v \in Values
      BY <1>1, EntryType DEF Inv, TypeOK
    <2> HIDE DEF v
    <2>2. [data |-> v, left |-> flush_ttl] \in [data : Values \cup {NoRow}, left : Nat]
      BY <2>1, ProjectionsAssumption
    <2> QED
      BY <1>1, <2>2 DEF v
  <1>2. CASE ~\E i \in DOMAIN account_batch : account_batch[i][1] = a
    BY <1>2 DEF Inv, TypeOK
  <1> QED
    BY <1>1, <1>2

(* The upsert writes the batch, which has no account twice.                *)
LEMMA FlushAccountsInv ==
    ASSUME Inv, FlushAccounts
    PROVE  Inv'
  <1>1. /\ UNCHANGED <<channel, transaction_batch, tableVars, transaction_cache, readVars>>
        /\ fpc = "accounts" /\ tx = NoWrites
    BY DEF FlushAccounts, Inv, TxShape
  <1>2. CASE /\ ~Poisoned /\ tx' = [tx EXCEPT !.accounts = account_batch]
             /\ account_cache' = Cached(account_batch)
             /\ account_batch' = <<>>
             /\ fpc' = "transactions" /\ UNCHANGED <<since, faults>>
    <2>1. account_batch' \in Seq(Accounts \X Values)
      BY <1>2, EmptySeq
    <2>2. tx' \in [accounts : Seq(Accounts \X Values), transactions : SUBSET Transactions]
      BY <1>2, ZenonT(30) DEF Inv, TypeOK
    <2>3. TypeOK'
      BY <1>1, <1>2, <2>1, <2>2, CachedType, ZenonT(30) DEF Inv, TypeOK, tableVars, readVars
    <2>4. tx'.accounts = account_batch /\ tx'.transactions = {}
      BY <1>1, <1>2, NoWritesType DEF Inv, TypeOK
    <2>5. TxShape'
      BY <1>2, <2>4 DEF TxShape, Poisoned
    <2> QED
      BY <1>1, <2>3, <2>5, ListsFrame DEF Inv, tableVars, readVars
  <1>3. CASE /\ (Poisoned /\ UNCHANGED faults) \/ Fault
             /\ EndFlush /\ UNCHANGED <<account_batch, account_cache>>
    <2>1. faults' \in 0 .. MaxFaults
      BY <1>3, FaultType DEF Inv, TypeOK
    <2>2. TypeOK'
      BY <1>1, <1>3, <2>1, EndFlushType, SMTT(30) DEF Inv, TypeOK, tableVars, readVars
    <2> QED
      BY <1>1, <1>3, <2>2, EndFlushShape, ListsFrame DEF Inv, tableVars, readVars
  <1> QED
    BY <1>2, <1>3 DEF FlushAccounts

(* The insert writes the transactions and drops the lists of their         *)
(* accounts; a list that is dropped is not ahead of anything.              *)
LEMMA FlushTransactionsInv ==
    ASSUME Inv, FlushTransactions
    PROVE  Inv'
  <1>1. /\ UNCHANGED <<channel, account_batch, tableVars, account_cache, readVars>>
        /\ fpc = "transactions" /\ account_batch = <<>>
    BY DEF FlushTransactions, Inv, TxShape
  <1> DEFINE new == [a \in Accounts |-> IF \E t \in Range(transaction_batch) : AccountOf[t] = a
                                          THEN NoList ELSE transaction_cache[a]]
  <1>2. CASE /\ tx' = [tx EXCEPT !.transactions = Range(transaction_batch)]
             /\ transaction_cache' = new
             /\ transaction_batch' = <<>>
             /\ fpc' = "commit" /\ UNCHANGED <<since, faults>>
    <2>1. transaction_batch' \in Seq(Transactions)
      BY <1>2, EmptySeq
    <2>2. Range(transaction_batch) \subseteq Transactions
      BY RangeType DEF Inv, TypeOK
    <2>3. /\ tx' \in [accounts : Seq(Accounts \X Values), transactions : SUBSET Transactions]
          /\ tx'.accounts = tx.accounts
      BY <1>2, <2>2, ZenonT(30) DEF Inv, TypeOK
    <2>4. new \in [Accounts -> [data : SUBSET Transactions, left : Nat]]
      BY DEF Inv, TypeOK, NoList
    <2>5. TypeOK'
      BY <1>1, <1>2, <2>1, <2>3, <2>4 DEF Inv, TypeOK, tableVars, readVars
    <2>6. TxShape'
      BY <1>1, <1>2, <2>3 DEF Inv, TxShape
    <2>7. ListsNotAhead'
      BY <1>1, <1>2 DEF Inv, ListsNotAhead, ListOf, NoList, tableVars, readVars
    <2> QED
      BY <2>5, <2>6, <2>7 DEF Inv
  <1>3. CASE Fault /\ EndFlush /\ UNCHANGED <<transaction_batch, transaction_cache>>
    <2>1. TypeOK'
      BY <1>1, <1>3, FaultType, EndFlushType, SMTT(30) DEF Inv, TypeOK, tableVars, readVars
    <2> QED
      BY <1>1, <1>3, <2>1, EndFlushShape, ListsFrame DEF Inv, tableVars, readVars
  <1> QED
    BY <1>2, <1>3 DEF FlushTransactions

(* The rows a commit leaves are values.                                    *)
LEMMA UpsertedType ==
    ASSUME Inv, NEW a \in Accounts
    PROVE  Upserted(a) \in Values \cup {NoRow}
  <1>1. tx.accounts \in Seq(Accounts \X Values)
    BY DEF Inv, TypeOK
  <1>2. CASE \E i \in DOMAIN tx.accounts : tx.accounts[i][1] = a
    BY <1>1, <1>2, EntryType DEF Upserted
  <1>3. CASE ~\E i \in DOMAIN tx.accounts : tx.accounts[i][1] = a
    BY <1>3 DEF Inv, TypeOK, Upserted
  <1> QED
    BY <1>2, <1>3

(* The committed rows only grow, so that lists stay behind them.           *)
LEMMA FlushCommitInv ==
    ASSUME Inv, FlushCommit
    PROVE  Inv'
  <1>1. /\ UNCHANGED <<channel, account_batch, transaction_batch, cacheVars, readVars>>
        /\ EndFlush
    BY DEF FlushCommit
  <1>2. faults' \in 0 .. MaxFaults
    BY FaultType DEF FlushCommit, Inv, TypeOK
  <1>3. rows' \in [Accounts -> Values \cup {NoRow}]
    BY UpsertedType, SMTT(40) DEF FlushCommit, Inv, TypeOK, tableVars
  <1>4. transactionRows' \subseteq Transactions /\ transactionRows \subseteq transactionRows'
    BY DEF FlushCommit, Inserted, Inv, TypeOK, tableVars
  <1>5. TypeOK'
    BY <1>1, <1>2, <1>3, <1>4, EndFlushType, SMTT(30) DEF Inv, TypeOK, cacheVars, readVars
  <1> QED
    BY <1>1, <1>4, <1>5, EndFlushShape, ListsFrame DEF Inv, cacheVars, readVars

(* Readers and time leave the task and the tables alone.                   *)
LEMMA ShapeFrame ==
    ASSUME Inv, UNCHANGED <<account_batch, transaction_batch, fpc, tx>>
    PROVE  TxShape'
  BY DEF Inv, TxShape

LEMMA ExceptType ==
    ASSUME NEW D, NEW S, NEW g \in [D -> S], NEW d \in D, NEW x \in S
    PROVE  [g EXCEPT ![d] = x] \in [D -> S]
  OBVIOUS

LEMMA GettingInv ==
    ASSUME Inv, NEW r \in Readers,
           ReadAccount(r) \/ \E a \in Accounts : GetAccount(r, a)
    PROVE  Inv'
  <1> DEFINE G == {Idle} \cup [pc : {"select"}, account : Accounts]
                    \cup [pc : {"insert"}, account : Accounts, data : Values]
  <1>1. UNCHANGED <<batchVars, tableVars, transaction_cache, listing>>
    BY DEF ReadAccount, GetAccount, GetAccountSelect, GetAccountInsert, cacheVars
  <1>2. getting \in [Readers -> G]
    BY DEF Inv, TypeOK
  <1>3. ASSUME getting' \in [Readers -> G], faults' \in 0 .. MaxFaults,
               account_cache' \in [Accounts -> [data : Values \cup {NoRow}, left : Nat]]
        PROVE  Inv'
    BY <1>1, <1>3, ShapeFrame, ListsFrame, ZenonT(30) DEF Inv, TypeOK, batchVars, tableVars
  <1>4. ASSUME NEW a \in Accounts, GetAccount(r, a)
        PROVE  Inv'
    <2>1. [pc |-> "select", account |-> a] \in G
      OBVIOUS
    <2> HIDE DEF G
    <2>2. getting' \in [Readers -> G]
      BY <1>2, <1>4, <2>1, ExceptType DEF GetAccount
    <2> QED
      BY <1>3, <1>4, <2>2 DEF GetAccount, cacheVars, Inv, TypeOK
  <1>5. CASE GetAccountSelect(r)
    <2>1. getting[r].account \in Accounts
      BY <1>2, <1>5 DEF GetAccountSelect, Idle
    <2> DEFINE a == getting[r].account
               x == IF rows[a] = NoRow THEN Idle
                      ELSE [pc |-> "insert", account |-> a, data |-> rows[a]]
    <2>2. rows[a] \in Values \cup {NoRow}
      BY <2>1 DEF Inv, TypeOK
    <2>3. x \in G
      <3> HIDE DEF a
      <3> QED  BY <2>1, <2>2 DEF a
    <2>4. Idle \in G
      OBVIOUS
    <2>5. \/ getting' = [getting EXCEPT ![r] = x] /\ UNCHANGED faults
          \/ Fault /\ getting' = [getting EXCEPT ![r] = Idle]
      BY <1>5 DEF GetAccountSelect
    <2> HIDE DEF G, a, x
    <2>6. getting' \in [Readers -> G]
      BY <1>2, <2>3, <2>4, <2>5, ExceptType
    <2>7. faults' \in 0 .. MaxFaults
      BY <2>5, FaultType DEF Inv, TypeOK
    <2> QED
      BY <1>3, <1>5, <2>6, <2>7 DEF GetAccountSelect, cacheVars, Inv, TypeOK
  <1>6. CASE GetAccountInsert(r)
    <2>1. getting[r] \in [pc : {"insert"}, account : Accounts, data : Values]
      BY <1>2, <1>6, SMTT(40) DEF GetAccountInsert, Idle
    <2>2. account_cache' \in [Accounts -> [data : Values \cup {NoRow}, left : Nat]]
      BY <1>6, <2>1, ProjectionsAssumption DEF GetAccountInsert, Inv, TypeOK
    <2>3. getting' \in [Readers -> G]
      BY <1>2, <1>6 DEF GetAccountInsert
    <2> QED
      BY <1>3, <1>6, <2>2, <2>3 DEF GetAccountInsert, Inv, TypeOK
  <1> QED
    BY <1>4, <1>5, <1>6 DEF ReadAccount

(* A list is cached as it was read: it is not ahead then, nor later.       *)
LEMMA ListingInv ==
    ASSUME Inv, NEW r \in Readers,
           ReadTransactions(r) \/ \E a \in Accounts : GetTransactions(r, a)
    PROVE  Inv'
  <1> DEFINE L == {Idle} \cup [pc : {"select"}, account : Accounts]
                    \cup [pc : {"insert"}, account : Accounts, data : SUBSET Transactions]
  <1>1. UNCHANGED <<batchVars, tableVars, account_cache, getting>>
    BY DEF ReadTransactions, GetTransactions, GetTransactionsSelect, GetTransactionsInsert,
           cacheVars
  <1>2. listing \in [Readers -> L]
    BY DEF Inv, TypeOK
  <1>3. ASSUME listing' \in [Readers -> L], faults' \in 0 .. MaxFaults, ListsNotAhead',
               transaction_cache' \in [Accounts -> [data : SUBSET Transactions, left : Nat]]
        PROVE  Inv'
    BY <1>1, <1>3, ShapeFrame DEF Inv, TypeOK, batchVars, tableVars
  <1>4. ASSUME NEW a \in Accounts, GetTransactions(r, a)
        PROVE  Inv'
    <2>1. [pc |-> "select", account |-> a] \in L
      OBVIOUS
    <2>2. ListsNotAhead'
      BY <1>1, <1>2, <1>4
         DEF GetTransactions, Inv, ListsNotAhead, ListOf, cacheVars, tableVars
    <2> HIDE DEF L
    <2>3. listing' \in [Readers -> L]
      BY <1>2, <1>4, <2>1, ExceptType DEF GetTransactions
    <2> QED
      BY <1>3, <1>4, <2>2, <2>3, SMTT(30) DEF GetTransactions, cacheVars, Inv, TypeOK
  <1>5. CASE GetTransactionsSelect(r)
    <2> DEFINE a == listing[r].account
               x == [pc |-> "insert", account |-> a, data |-> ListOf(a)]
    <2>1. a \in Accounts
      BY <1>2, <1>5, SMTT(40) DEF GetTransactionsSelect, Idle
    <2>2. ListOf(a) \in SUBSET Transactions
      BY DEF Inv, TypeOK, ListOf
    <2>3. x \in L /\ Idle \in L
      <3> HIDE DEF a
      <3> QED  BY <2>1, <2>2
    <2>4. \/ listing' = [listing EXCEPT ![r] = x] /\ UNCHANGED faults
          \/ Fault /\ listing' = [listing EXCEPT ![r] = Idle]
      BY <1>5 DEF GetTransactionsSelect
    <2>5. x.data = ListOf(a) /\ x.account = a /\ Idle.pc # "insert"
      BY DEF Idle
    <2>6. UNCHANGED <<transaction_cache, transactionRows>>
      BY <1>1, <1>5 DEF GetTransactionsSelect, cacheVars, tableVars
    <2> HIDE DEF L, a, x
    <2>7. listing' \in [Readers -> L]
      BY <1>2, <2>3, <2>4, ExceptType
    <2>8. ListsNotAhead'
      BY <1>2, <2>4, <2>5, <2>6 DEF Inv, ListsNotAhead, ListOf
    <2>9. faults' \in 0 .. MaxFaults
      BY <2>4, FaultType DEF Inv, TypeOK
    <2> QED
      BY <1>3, <2>6, <2>7, <2>8, <2>9 DEF Inv, TypeOK
  <1>6. CASE GetTransactionsInsert(r)
    <2>1. listing[r] \in [pc : {"insert"}, account : Accounts, data : SUBSET Transactions]
      BY <1>2, <1>6 DEF GetTransactionsInsert, Idle
    <2>2. transaction_cache' \in [Accounts -> [data : SUBSET Transactions, left : Nat]]
      BY <1>6, <2>1, ProjectionsAssumption DEF GetTransactionsInsert, Inv, TypeOK
    <2>3. listing' \in [Readers -> L]
      BY <1>2, <1>6 DEF GetTransactionsInsert
    <2>4. ListsNotAhead'
      BY <1>1, <1>2, <1>6, <2>1, ZenonT(60)
         DEF GetTransactionsInsert, Inv, TypeOK, ListsNotAhead, ListOf, Idle, tableVars
    <2> QED
      BY <1>3, <1>6, <2>2, <2>3, <2>4, ZenonT(30) DEF GetTransactionsInsert, Inv, TypeOK
  <1> QED
    BY <1>4, <1>5, <1>6 DEF ReadTransactions

LEMMA Ages ==
    ASSUME NEW D, NEW e \in [data : D, left : Nat], e.left > 1
    PROVE  /\ [e EXCEPT !.left = @ - 1] \in [data : D, left : Nat]
           /\ [e EXCEPT !.left = @ - 1].data = e.data
  OBVIOUS

(* A tick ages the entries; one that is over holds nothing.                *)
LEMMA TickInv ==
    ASSUME Inv, Tick
    PROVE  Inv'
  <1>1. UNCHANGED <<channel, account_batch, transaction_batch, fpc, tx, tableVars, readVars,
                    faults>>
    BY DEF Tick
  <1>2. since' \in 0 .. batch_timeout
    BY ProjectionsAssumption, SMTT(30) DEF Tick, Inv, TypeOK
  <1>3. account_cache' \in [Accounts -> [data : Values \cup {NoRow}, left : Nat]]
    <2> DEFINE E == [data : Values \cup {NoRow}, left : Nat]
               new(a) == IF account_cache[a].left > 1
                           THEN [account_cache[a] EXCEPT !.left = @ - 1] ELSE NoEntry
    <2>1. account_cache' = [a \in Accounts |-> new(a)]
      BY DEF Tick
    <2>2. ASSUME NEW a \in Accounts PROVE new(a) \in E
      <3>1. account_cache[a] \in E
        BY DEF Inv, TypeOK
      <3>2. NoEntry \in E
        BY DEF NoEntry
      <3> QED
        BY <3>1, <3>2, Ages
    <2> HIDE DEF E, new
    <2>3. account_cache' \in [Accounts -> E]
      BY <2>1, <2>2
    <2> QED
      BY <2>3 DEF E
  <1>4. /\ transaction_cache' \in [Accounts -> [data : SUBSET Transactions, left : Nat]]
        /\ \A a \in Accounts : transaction_cache'[a].data \subseteq transaction_cache[a].data
    <2> DEFINE E == [data : SUBSET Transactions, left : Nat]
               new(a) == IF transaction_cache[a].left > 1
                           THEN [transaction_cache[a] EXCEPT !.left = @ - 1] ELSE NoList
    <2>1. transaction_cache' = [a \in Accounts |-> new(a)]
      BY DEF Tick
    <2>2. ASSUME NEW a \in Accounts
          PROVE  new(a) \in E /\ new(a).data \subseteq transaction_cache[a].data
      <3>1. transaction_cache[a] \in E
        BY DEF Inv, TypeOK
      <3>2. NoList \in E /\ NoList.data = {}
        BY DEF NoList
      <3> QED
        BY <3>1, <3>2, Ages
    <2> HIDE DEF E, new
    <2>3. /\ transaction_cache' \in [Accounts -> E]
          /\ \A a \in Accounts : transaction_cache'[a].data \subseteq transaction_cache[a].data
      BY <2>1, <2>2
    <2> QED
      BY <2>3 DEF E
  <1>5. TypeOK'
    BY <1>1, <1>2, <1>3, <1>4 DEF Inv, TypeOK, tableVars, readVars
  <1>6. ListsNotAhead'
    BY <1>1, <1>4 DEF Inv, ListsNotAhead, ListOf, tableVars, readVars
  <1> QED
    BY <1>1, <1>5, <1>6, ShapeFrame DEF Inv

LEMMA NextInv == Inv /\ [Next]_vars => Inv'
  <1> SUFFICES ASSUME Inv, [Next]_vars PROVE Inv'
    OBVIOUS
  <1>1. ASSUME NEW u \in Updates, Send(u) PROVE Inv'
    BY <1>1, SendInv
  <1>2. CASE Processor
    BY <1>2, RecvInv, FlushBeginInv, FlushAccountsInv, FlushTransactionsInv, FlushCommitInv
       DEF Processor
  <1>3. ASSUME NEW r \in Readers, Call(r) \/ ReadAccount(r) \/ ReadTransactions(r)
        PROVE  Inv'
    BY <1>3, GettingInv, ListingInv DEF Call
  <1>4. CASE Tick
    BY <1>4, TickInv
  <1>5. CASE UNCHANGED vars
    BY <1>5, ShapeFrame, ListsFrame, ZenonT(30)
       DEF Inv, TypeOK, vars, batchVars, tableVars, cacheVars, readVars
  <1> QED
    BY <1>1, <1>2, <1>3, <1>4, <1>5 DEF Next

LEMMA InvHolds == Spec => []Inv
  BY InitInv, NextInv, PTL DEF Spec

(***************************************************************************)
(* Theorems                                                                *)
(***************************************************************************)
(* Every variable of the projection store keeps its type.                  *)
THEOREM TypeCorrect == Spec => []TypeOK
  <1>1. Inv => TypeOK
    BY DEF Inv
  <1> QED
    BY <1>1, InvHolds, PTL

(* The cached lists of get_account_transactions, and those a reader is     *)
(* about to cache, hold committed transactions of their account only.      *)
THEOREM ListsAreCommitted == Spec => []ListsNotAhead
  <1>1. Inv => ListsNotAhead
    BY DEF Inv
  <1> QED
    BY <1>1, InvHolds, PTL

(* A batch that has an account twice is not drained by flush_batches, and  *)
(* no flush gets past it to the tables.                                    *)
LEMMA PoisonStays ==
    ASSUME Inv, Next, Poisoned
    PROVE  Poisoned' /\ UNCHANGED tableVars
  <1>1. fpc \in {"recv", "begin", "accounts"}
    <2>1. account_batch # <<>>
      BY DEF Poisoned
    <2> QED
      BY <2>1 DEF Inv, TxShape, TypeOK
  <1>2. CASE Recv
    <2> DEFINE u == Head(channel)
    <2>1. u \in Updates
      BY <1>2, HeadTailType DEF Inv, TypeOK, Recv
    <2>2. account_batch' = account_batch \o u.accounts /\ UNCHANGED tableVars
      BY <1>2 DEF Recv
    <2> HIDE DEF u
    <2>3. u.accounts \in Seq(Accounts \X Values)
      BY <2>1, ProjectionsAssumption
    <2>4. account_batch \in Seq(Accounts \X Values)
      BY DEF Inv, TypeOK
    <2>5. \A i \in DOMAIN account_batch :
             /\ i \in DOMAIN (account_batch \o u.accounts)
             /\ (account_batch \o u.accounts)[i] = account_batch[i]
      BY ONLY <2>3, <2>4, ConcatKeeps
    <2> QED
      BY <2>2, <2>5 DEF Poisoned
  <1>3. CASE UNCHANGED <<account_batch, tableVars>>
    BY <1>3 DEF Poisoned
  <1>4. CASE Processor
    BY <1>1, <1>2, <1>3, <1>4
       DEF Processor, FlushBegin, FlushAccounts, FlushTransactions, FlushCommit
  <1>5. ASSUME NEW r \in Readers, Call(r) \/ ReadAccount(r) \/ ReadTransactions(r)
        PROVE  UNCHANGED <<account_batch, tableVars>>
    BY <1>5 DEF Call, GetAccount, GetTransactions, ReadAccount, GetAccountSelect,
                GetAccountInsert, ReadTransactions, GetTransactionsSelect,
                GetTransactionsInsert, batchVars
  <1> QED
    BY <1>3, <1>4, <1>5 DEF Next, Send, Tick

(* Two updates of one account in a batch end all flushing, whatever is     *)
(* sent, read or fails afterwards.                                         *)
THEOREM PoisonIsForever == Spec => PoisonedForever
  <1>1. Inv /\ [Next]_vars => [Poisoned => Poisoned' /\ UNCHANGED tableVars]_vars
    BY PoisonStays
  <1> QED
    BY <1>1, InvHolds, PTL DEF Spec, PoisonedForever

(* The part of NothingLostWithoutFault about one step.                     *)
Kept ==
    /\ \A u \in AccountsInHand \ AccountsInHand' : rows'[u[1]] = u[2]
    /\ TransactionsInHand \ TransactionsInHand' \subseteq transactionRows'

LEMMA HandsFrame ==
    ASSUME AccountsInHand \subseteq AccountsInHand', TransactionsInHand \subseteq TransactionsInHand'
    PROVE  Kept
  BY DEF Kept

(* What a commit takes out of hand it writes: the transaction names an     *)
(* account at most once, so that the value found for it is the one.        *)
LEMMA CommitKeeps ==
    ASSUME Inv, FlushCommit, UNCHANGED faults
    PROVE  Kept
  <1>1. /\ rows' = [a \in Accounts |-> Upserted(a)]
        /\ transactionRows' = transactionRows \cup tx.transactions
    BY FaultType DEF FlushCommit, Inserted
  <1>2. /\ fpc = "commit" /\ account_batch = <<>> /\ transaction_batch = <<>>
        /\ tx.accounts \in Seq(Accounts \X Values)
        /\ \A i, j \in DOMAIN tx.accounts : tx.accounts[i][1] = tx.accounts[j][1] => i = j
    BY DEF FlushCommit, Inv, TypeOK, TxShape
  <1>3. AccountsInHand = Range(tx.accounts) /\ TransactionsInHand = tx.transactions
    BY <1>2 DEF AccountsInHand, TransactionsInHand, Range
  <1>4. ASSUME NEW i \in DOMAIN tx.accounts
        PROVE  rows'[tx.accounts[i][1]] = tx.accounts[i][2]
    <2> DEFINE a == tx.accounts[i][1]
               c == CHOOSE j \in DOMAIN tx.accounts : tx.accounts[j][1] = a
    <2>1. tx.accounts[i] \in Accounts \X Values
      BY <1>2, RangeType
    <2>2. a \in Accounts
      BY <2>1
    <2>3. c \in DOMAIN tx.accounts /\ tx.accounts[c][1] = a
      OBVIOUS
    <2>4. c = i
      BY <1>2, <2>3
    <2>5. Upserted(a) = tx.accounts[c][2]
      BY DEF Upserted
    <2> HIDE DEF a, c
    <2>6. rows'[a] = tx.accounts[i][2]
      BY <1>1, <2>2, <2>4, <2>5
    <2> QED
      BY <2>6 DEF a
  <1>5. \A u \in AccountsInHand : rows'[u[1]] = u[2]
    BY <1>3, <1>4 DEF Range
  <1> QED
    BY <1>1, <1>3, <1>5 DEF Kept

LEMMA ProcessorKeeps ==
    ASSUME Inv, Processor, UNCHANGED faults
    PROVE  Kept
  <1>1. CASE Recv
    <2> DEFINE u == Head(channel)
    <2>1. u \in Updates
      BY <1>1, HeadTailType DEF Inv, TypeOK, Recv
    <2>2. /\ account_batch' = account_batch \o u.accounts
          /\ transaction_batch' = transaction_batch \o u.transactions /\ tx' = tx
      BY <1>1 DEF Recv
    <2> HIDE DEF u
    <2>3. u.accounts \in Seq(Accounts \X Values) /\ u.transactions \in Seq(Transactions)
      BY <2>1, ProjectionsAssumption
    <2>4. /\ account_batch \in Seq(Accounts \X Values)
          /\ transaction_batch \in Seq(Transactions)
      BY DEF Inv, TypeOK
    <2>5. /\ Range(account_batch) \subseteq Range(account_batch \o u.accounts)
          /\ Range(transaction_batch) \subseteq Range(transaction_batch \o u.transactions)
      BY ONLY <2>3, <2>4, ConcatKeeps
    <2> QED
      BY <2>2, <2>5, HandsFrame DEF AccountsInHand, TransactionsInHand
  <1>2. CASE FlushBegin
    <2>1. UNCHANGED <<account_batch, transaction_batch, tx>>
      BY <1>2, FaultType DEF FlushBegin
    <2> QED
      BY <2>1, HandsFrame DEF AccountsInHand, TransactionsInHand
  <1>3. CASE FlushAccounts
    <2>1. tx.accounts = <<>> /\ tx.transactions = {} /\ UNCHANGED transaction_batch
      BY <1>3, NoWritesType DEF FlushAccounts, Inv, TxShape
    <2>2. \/ tx'.accounts = account_batch
          \/ account_batch' = account_batch
      BY <1>3 DEF FlushAccounts, Inv, TypeOK
    <2>3. Range(tx.accounts) = {}
      BY <2>1 DEF Range
    <2> QED
      BY <2>1, <2>2, <2>3, HandsFrame DEF AccountsInHand, TransactionsInHand
  <1>4. CASE FlushTransactions
    <2>1. /\ tx' = [tx EXCEPT !.transactions = Range(transaction_batch)]
          /\ UNCHANGED account_batch /\ tx.transactions = {}
      BY <1>4, FaultType DEF FlushTransactions, Inv, TxShape
    <2>2. tx'.accounts = tx.accounts /\ tx'.transactions = Range(transaction_batch)
      BY <2>1 DEF Inv, TypeOK
    <2> QED
      BY <2>1, <2>2, HandsFrame DEF AccountsInHand, TransactionsInHand
  <1>5. CASE FlushCommit
    BY <1>5, CommitKeeps
  <1> QED
    BY <1>1, <1>2, <1>3, <1>4, <1>5 DEF Processor

(* As long as no statement fails, what leaves the hands of                 *)
(* update_processor has been committed.                                    *)
THEOREM NothingIsLost == Spec => NothingLostWithoutFault
  <1>1. ASSUME Inv, Next, UNCHANGED faults
        PROVE  Kept
    <2>1. CASE UNCHANGED <<account_batch, transaction_batch, tx>>
      BY <2>1, HandsFrame DEF AccountsInHand, TransactionsInHand
    <2>2. CASE Processor
      BY <1>1, <2>2, ProcessorKeeps
    <2>3. ASSUME NEW r \in Readers, Call(r) \/ ReadAccount(r) \/ ReadTransactions(r)
          PROVE  UNCHANGED <<account_batch, transaction_batch, tx>>
      BY <2>3 DEF Call, GetAccount, GetTransactions, ReadAccount, GetAccountSelect,
                  GetAccountInsert, ReadTransactions, GetTransactionsSelect,
                  GetTransactionsInsert, batchVars
    <2> QED
      BY <1>1, <2>1, <2>2, <2>3 DEF Next, Send, Tick
  <1>2. Inv /\ [Next]_vars =>
          [faults' = faults =>
             /\ \A u \in AccountsInHand \ AccountsInHand' : rows'[u[1]] = u[2]
             /\ TransactionsInHand \ TransactionsInHand' \subseteq transactionRows']_vars
    BY <1>1 DEF Kept
  <1> QED
    BY <1>2, InvHolds, PTL DEF Spec, NothingLostWithoutFault
=============================================================================
