----------------------- MODULE AccountCommandsProofs -----------------------
(***************************************************************************)
(* Proofs about AccountCommands, for any number of handler and service     *)
(* commands, of accounts and of amounts, and any histories to start from.  *)
(***************************************************************************)
EXTENDS AccountCommands, WellFoundedInduction, TLAPS

IsAccount(account, v) == account.balance \in Int /\ account.version = v

TypeInv ==
    /\ running \in SUBSET Tasks
    /\ stored \in [Ids -> Seq(Events)]
    /\ stage \in [Tasks -> Store!Stages]
    /\ DOMAIN call = Tasks /\ DOMAIN reply = Tasks /\ DOMAIN command = Tasks
    /\ loading \subseteq Services
    /\ \A t \in Tasks : Busy(t) => t \in running /\ command[t] \in Commands
    /\ \A t \in loading : stage[t] = "idle" /\ command[t].kind \in {"deposit", "withdraw"}

(* A service command is known to is_duplicate_command for as long as it    *)
(* runs, and ids that are drawn are new to it.                             *)
CacheInv ==
    /\ command_cache \subseteq issued
    /\ \A t \in Services : Busy(t) => command[t].id \in command_cache
    /\ OneCommandPerAccount

(* A handler's command was accepted for the account as it was at the       *)
(* version it expects; what is stored up to there does not change.         *)
Decided(t) ==
    /\ call[t].expected \in 1 .. Len(stored[call[t].agg])
    /\ Accepts(Replay(SubSeq(stored[call[t].agg], 1, call[t].expected)),
               command[t].kind, command[t].amount)

(* A service's command expects one event more than there is.               *)
Ahead(t) ==
    /\ stored[call[t].agg] # <<>>
    /\ call[t].expected = Len(stored[call[t].agg]) + 1

CallInv ==
    \A t \in Tasks : Store!Unanswered(t) =>
        /\ call[t].agg \in Ids /\ call[t].expected \in Nat
        /\ command[t].kind = "create" => call[t].expected = 0 /\ command[t].amount >= 0
        /\ command[t].kind # "create" =>
              /\ t \in Handlers => Decided(t)
              /\ running \subseteq Services => Ahead(t)

Inv == TypeInv /\ CacheInv /\ CallInv /\ HistoriesAreSerial /\ ServiceSavesNothing

-----------------------------------------------------------------------------
(* Replay, by induction on the length of the history: a set of lengths for *)
(* which the claim fails would have a least element.                       *)
LEMMA LeastElement ==
    ASSUME NEW T \in SUBSET Nat, T # {}
    PROVE  \E x \in T : \A y \in T : x =< y
  <1> DEFINE R == OpToRel(<, Nat)
  <1>1. IsWellFoundedOn(R, Nat)
    BY NatLessThanWellFounded, ZenonT(30)
  <1>2. \A x, y \in Nat : y < x => <<y, x>> \in R
    BY SMT DEF OpToRel
  <1> HIDE DEF R
  <1>3. PICK x \in T : \A y \in T : ~(<<y, x>> \in R)
    BY <1>1, WFMin, ZenonT(30)
  <1>4. ASSUME NEW y \in T PROVE x =< y
    <2>1. ~(y < x)
      BY <1>2, <1>3, ZenonT(30)
    <2> QED
      BY <2>1
  <1> QED
    BY <1>4

(* f is the recursive function that Replay(events) is defined with, for    *)
(* the first N events.                                                     *)
Replays(f, events, N) ==
    f = [n \in 0 .. N |-> IF n = 0 THEN Default ELSE ApplyEvent(f[n - 1], events[n])]

LEMMA ReplaysExists ==
    ASSUME NEW events, NEW N \in Nat
    PROVE  \E f : Replays(f, events, N)
  <1> DEFINE T == {n \in Nat : ~\E f : Replays(f, events, n)}
  <1> SUFFICES ASSUME T # {} PROVE FALSE
    OBVIOUS
  <1>1. PICK n \in T : \A m \in T : n =< m
    <2>1. T \in SUBSET Nat
      OBVIOUS
    <2> HIDE DEF T
    <2> QED
      BY <2>1, LeastElement
  <1>2. n # 0
    <2>1. Replays([m \in 0 .. 0 |-> Default], events, 0)
      BY DEF Replays
    <2> QED
      BY <2>1
  <1>3. PICK f : Replays(f, events, n - 1)
    BY <1>1, <1>2
  <1>4. Replays([m \in 0 .. n |-> IF m = n THEN ApplyEvent(f[n - 1], events[n]) ELSE f[m]], events, n)
    BY <1>2, <1>3 DEF Replays
  <1> QED
    BY <1>4

LEMMA ReplayUnfolds ==
    ASSUME NEW events, Len(events) \in Nat
    PROVE  \E f : Replays(f, events, Len(events)) /\ Replay(events) = f[Len(events)]
  <1> DEFINE f == CHOOSE f : Replays(f, events, Len(events))
  <1>1. Replays(f, events, Len(events))
    <2>1. \E g : Replays(g, events, Len(events))
      BY ReplaysExists
    <2> QED
      BY <2>1, Zenon
  <1>2. Replay(events) = f[Len(events)]
    BY DEF Replay, Replays
  <1> QED
    BY <1>1, <1>2, ZenonT(30)

(* Two histories with a common beginning have the same account there.      *)
LEMMA ReplaysAgree ==
    ASSUME NEW d, NEW e, NEW M \in Nat, NEW N \in Nat, M =< N,
           NEW f, Replays(f, d, M), NEW g, Replays(g, e, N),
           \A i \in 1 .. M : d[i] = e[i]
    PROVE  f[M] = g[M]
  <1> DEFINE T == {n \in Nat : n =< M /\ f[n] # g[n]}
  <1> SUFFICES ASSUME T # {} PROVE FALSE
    OBVIOUS
  <1>1. PICK n \in T : \A m \in T : n =< m
    <2>1. T \in SUBSET Nat
      OBVIOUS
    <2> HIDE DEF T
    <2> QED
      BY <2>1, LeastElement
  <1>2. n # 0
    BY DEF Replays
  <1>3. f[n - 1] = g[n - 1]
    BY <1>1, <1>2
  <1>4. f[n] = ApplyEvent(f[n - 1], d[n]) /\ g[n] = ApplyEvent(g[n - 1], e[n])
    BY <1>2 DEF Replays
  <1> QED
    BY <1>2, <1>3, <1>4

LEMMA ReplayAppend ==
    ASSUME NEW events \in Seq(Events), NEW e \in Events
    PROVE  Replay(Append(events, e)) = ApplyEvent(Replay(events), e)
  <1> DEFINE N == Len(events)
             longer == Append(events, e)
  <1>1. /\ N \in Nat /\ Len(longer) = N + 1 /\ longer[N + 1] = e
        /\ \A i \in 1 .. N : events[i] = longer[i]
    OBVIOUS
  <1>2. PICK f : Replays(f, events, N) /\ Replay(events) = f[N]
    BY <1>1, ReplayUnfolds
  <1> HIDE DEF N, longer
  <1>3. PICK g : Replays(g, longer, N + 1) /\ Replay(longer) = g[N + 1]
    BY <1>1, ReplayUnfolds
  <1>4. f[N] = g[N]
    BY <1>1, <1>2, <1>3, ReplaysAgree
  <1>5. g[N + 1] = ApplyEvent(g[N], longer[N + 1])
    BY <1>1, <1>3 DEF Replays
  <1> QED
    BY <1>1, <1>2, <1>3, <1>4, <1>5 DEF longer

LEMMA ApplyType ==
    ASSUME NEW account, NEW v \in Nat, IsAccount(account, v), NEW e \in Events
    PROVE  IsAccount(ApplyEvent(account, e), v + 1)
  <1>1. e.amount \in Int
    <2>1. e.amount \in Amounts \cup {0}
      BY DEF Events
    <2>2. Amounts \subseteq Int
      BY AccountCommandsAssumption
    <2>3. 0 \in Int
      OBVIOUS
    <2> QED
      BY <2>1, <2>2, <2>3, Zenon
  <1>2. /\ ApplyEvent(account, e).version = v + 1
        /\ ApplyEvent(account, e).balance \in {e.amount, account.balance + e.amount,
                                               account.balance - e.amount, account.balance}
    BY DEF IsAccount, ApplyEvent
  <1> QED
    BY <1>1, <1>2 DEF IsAccount

(* The account that get_by_id returns, and its version.                    *)
LEMMA ReplayType ==
    ASSUME NEW events \in Seq(Events)
    PROVE  IsAccount(Replay(events), Len(events))
  <1>1. Len(events) \in Nat /\ \A i \in 1 .. Len(events) : events[i] \in Events
    OBVIOUS
  <1>2. PICK f : Replays(f, events, Len(events)) /\ Replay(events) = f[Len(events)]
    BY <1>1, ReplayUnfolds
  <1> DEFINE T == {n \in Nat : n =< Len(events) /\ ~IsAccount(f[n], n)}
  <1>3. SUFFICES ASSUME T # {} PROVE FALSE
    BY <1>1, <1>2
  <1>4. PICK n \in T : \A m \in T : n =< m
    <2>1. T \in SUBSET Nat
      OBVIOUS
    <2> HIDE DEF T
    <2> QED
      BY <1>3, <2>1, LeastElement
  <1>5. n # 0
    <2>1. f[0] = Default
      BY <1>1, <1>2 DEF Replays
    <2> QED
      BY <2>1 DEF Default, IsAccount
  <1>6. IsAccount(f[n - 1], n - 1)
    BY <1>4, <1>5, <1>1
  <1>7. f[n] = ApplyEvent(f[n - 1], events[n]) /\ events[n] \in Events
    <2>1. n \in 0 .. Len(events) /\ n \in 1 .. Len(events)
      BY <1>1, <1>5
    <2> HIDE DEF T
    <2>2. f[n] = ApplyEvent(f[n - 1], events[n])
      BY <1>2, <1>5, <2>1 DEF Replays
    <2> QED
      BY <1>1, <2>1, <2>2
  <1> QED
    BY <1>5, <1>6, <1>7, ApplyType

-----------------------------------------------------------------------------
(* The event a command offers, and what it makes of a history.             *)
LEMMA EventTypes ==
    ASSUME NEW c \in Commands
    PROVE  /\ Event(c) \in Events /\ Event(c).amount = c.amount /\ c.amount \in Int
           /\ c.kind \in Kinds /\ c.id \in Ids
           /\ Event(c).type = "AccountCreated" <=> c.kind = "create"
           /\ c.kind = "deposit" => Event(c).type = "MoneyDeposited"
           /\ c.kind = "withdraw" => Event(c).type = "MoneyWithdrawn"
           /\ c.kind = "close" => Event(c).type = "AccountClosed"
  <1>1. c.kind \in Kinds /\ c.id \in Ids /\ c.amount \in Amounts \cup {0}
    BY DEF Commands, Kinds
  <1>2. c.amount \in Int
    <2>1. Amounts \subseteq Int
      BY AccountCommandsAssumption
    <2>2. 0 \in Int
      OBVIOUS
    <2> QED
      BY <1>1, <2>1, <2>2, Zenon
  <1>3. Event(c).type = EventOf[c.kind] /\ Event(c).amount = c.amount
    BY DEF Event
  <1>4. Event(c) \in Events
    BY <1>1 DEF Event, Events
  <1> QED
    BY <1>1, <1>2, <1>3, <1>4 DEF EventOf, Kinds

(* The first n events of a history are those of any longer one.            *)
LEMMA PrefixStays ==
    ASSUME NEW events \in Seq(Events), NEW e \in Events, NEW n \in 0 .. Len(events)
    PROVE  /\ Append(events, e) \in Seq(Events) /\ Len(Append(events, e)) = Len(events) + 1
           /\ SubSeq(Append(events, e), 1, n) = SubSeq(events, 1, n)
           /\ SubSeq(events, 1, Len(events)) = events
  OBVIOUS

LEMMA SerialAppend ==
    ASSUME NEW events \in Seq(Events), Serial(events), NEW c \in Commands,
           \/ events = <<>> /\ c.kind = "create" /\ c.amount >= 0
           \/ events # <<>> /\ c.kind # "create" /\ Accepts(Replay(events), c.kind, c.amount)
    PROVE  Serial(Append(events, Event(c)))
  <1> DEFINE e == Event(c)
             N == Len(events)
             longer == Append(events, e)
  <1>1. /\ e \in Events /\ e.amount = c.amount /\ c.amount \in Int /\ c.kind \in Kinds
        /\ e.type = "AccountCreated" <=> c.kind = "create"
        /\ c.kind = "deposit" => e.type = "MoneyDeposited"
        /\ c.kind = "withdraw" => e.type = "MoneyWithdrawn"
        /\ c.kind = "close" => e.type = "AccountClosed"
    BY EventTypes
  <1> HIDE DEF e
  <1>2. /\ N \in Nat /\ Len(longer) = N + 1 /\ longer[N + 1] = e
        /\ \A i \in 1 .. N : longer[i] = events[i]
        /\ events = <<>> <=> N = 0
    BY <1>1
  <1>3. \A m \in 0 .. N : SubSeq(longer, 1, m) = SubSeq(events, 1, m)
    BY <1>1, PrefixStays
  <1>4. SubSeq(events, 1, N) = events /\ SubSeq(longer, 1, N + 1) = longer
    <2>1. longer \in Seq(Events)
      BY <1>1
    <2> QED
      BY <1>2, <2>1
  <1>5. Replay(longer) = ApplyEvent(Replay(events), e) /\ Replay(events).balance \in Int
    BY <1>1, ReplayAppend, ReplayType DEF IsAccount
  <1>6. ASSUME N > 0 PROVE Replay(events).balance >= 0
    <2>1. N \in 1 .. Len(events)
      BY <1>2, <1>6
    <2>2. Replay(SubSeq(events, 1, N)).balance >= 0
      BY <2>1 DEF Serial
    <2> QED
      BY <1>4, <2>2, ZenonT(30)
  <1>7. Replay(longer).balance >= 0
    <2>1. CASE c.kind = "create"
      BY <1>1, <1>5, <2>1 DEF ApplyEvent
    <2>2. CASE c.kind = "deposit"
      BY <1>1, <1>2, <1>5, <1>6, <2>2 DEF ApplyEvent, Accepts
    <2>3. CASE c.kind = "withdraw"
      BY <1>1, <1>2, <1>5, <1>6, <2>3 DEF ApplyEvent, Accepts
    <2>4. CASE c.kind = "close"
      BY <1>1, <1>2, <1>5, <1>6, <2>4 DEF ApplyEvent
    <2> QED
      BY <1>1, <2>1, <2>2, <2>3, <2>4 DEF Kinds
  <1>8. N > 0 => Replay(events).is_active
    BY <1>2 DEF Accepts
  <1> HIDE DEF longer, N
  <1>9. ASSUME NEW n \in 1 .. N + 1
        PROVE  /\ longer[n].type = "AccountCreated" <=> n = 1
               /\ n > 1 => Replay(SubSeq(longer, 1, n - 1)).is_active
               /\ Replay(SubSeq(longer, 1, n)).balance >= 0
    <2>1. CASE n =< N
      <3>1. /\ SubSeq(longer, 1, n) = SubSeq(events, 1, n) /\ longer[n] = events[n]
            /\ SubSeq(longer, 1, n - 1) = SubSeq(events, 1, n - 1)
        BY <1>2, <1>3, <2>1
      <3>2. /\ events[n].type = "AccountCreated" <=> n = 1
            /\ n > 1 => Replay(SubSeq(events, 1, n - 1)).is_active
            /\ Replay(SubSeq(events, 1, n)).balance >= 0
        BY <1>2, <2>1 DEF Serial, N
      <3> QED
        BY <3>1, <3>2, ZenonT(30)
    <2>2. CASE n = N + 1
      <3>1. longer[n].type = "AccountCreated" <=> n = 1
        BY <1>1, <1>2, <2>2
      <3>2. n > 1 => Replay(SubSeq(longer, 1, n - 1)).is_active
        <4>1. n - 1 = N /\ SubSeq(longer, 1, N) = events
          BY <1>2, <1>3, <1>4, <2>2
        <4>2. Replay(SubSeq(longer, 1, n - 1)) = Replay(events)
          BY <4>1, Zenon
        <4>3. n > 1 => N > 0
          BY <1>2, <2>2
        <4> QED
          BY <1>8, <4>2, <4>3, Zenon
      <3>3. Replay(SubSeq(longer, 1, n)).balance >= 0
        BY <1>4, <1>7, <2>2, ZenonT(30)
      <3> QED
        BY <3>1, <3>2, <3>3
    <2> QED
      BY <1>2, <2>1, <2>2
  <1> QED
    BY <1>2, <1>9 DEF Serial, longer, e

-----------------------------------------------------------------------------
(* Commands that come to an end, and nothing else.                         *)
Ending ==
    /\ UNCHANGED <<running, issued>>
    /\ stage' \in [Tasks -> Store!Stages]
    /\ DOMAIN call' = Tasks /\ DOMAIN reply' = Tasks /\ DOMAIN command' = Tasks
    /\ loading' \subseteq loading
    /\ \A t \in Tasks : Busy(t)' => Busy(t) /\ command'[t] = command[t]
    /\ \A t \in loading' : stage'[t] = "idle"
    /\ \A t \in Tasks : Store!Unanswered(t)' => Store!Unanswered(t) /\ call'[t] = call[t]

LEMMA EndingType ==
    ASSUME TypeInv, Ending, stored' \in [Ids -> Seq(Events)]
    PROVE  TypeInv'
  <1>1. \A t \in loading' : t \in Tasks /\ t \in loading /\ Busy(t)'
    BY DEF TypeInv, Ending, Busy, Tasks
  <1>2. \A t \in loading' : command'[t].kind \in {"deposit", "withdraw"}
    BY <1>1 DEF TypeInv, Ending
  <1>3. \A t \in Tasks : Busy(t)' => t \in running /\ command'[t] \in Commands
    BY DEF TypeInv, Ending
  <1> QED
    BY <1>2, <1>3 DEF TypeInv, Ending

LEMMA EndingCache ==
    ASSUME TypeInv, CacheInv, Ending, UNCHANGED command_cache
    PROVE  CacheInv'
  <1>1. \A t \in Services : Busy(t)' => Busy(t) /\ command'[t] = command[t]
    BY DEF Ending, Tasks
  <1> QED
    BY <1>1 DEF CacheInv, Ending, OneCommandPerAccount

(* What a command decided on is still so.                                  *)
LEMMA EndingCalls ==
    ASSUME TypeInv, CallInv, Ending, UNCHANGED stored
    PROVE  CallInv'
  <1> SUFFICES ASSUME NEW t \in Tasks, Store!Unanswered(t)'
               PROVE  /\ call'[t].agg \in Ids /\ call'[t].expected \in Nat
                      /\ command'[t].kind = "create" => call'[t].expected = 0 /\ command'[t].amount >= 0
                      /\ command'[t].kind # "create" =>
                            /\ t \in Handlers => Decided(t)'
                            /\ running' \subseteq Services => Ahead(t)'
    BY DEF CallInv
  <1>1. Store!Unanswered(t) /\ call'[t] = call[t] /\ running' = running
    BY DEF Ending
  <1>2. command'[t] = command[t]
    <2>1. Busy(t)'
      BY DEF Busy, Store!Unanswered
    <2> QED
      BY <2>1 DEF Ending
  <1> QED
    BY <1>1, <1>2 DEF CallInv, Decided, Ahead

LEMMA EndingInv ==
    ASSUME Inv, Ending, UNCHANGED <<stored, command_cache>>,
           \A t \in Tasks : stage'[t] = "answered" /\ reply'[t] = "ok" =>
                               stage[t] = "answered" /\ reply[t] = "ok"
    PROVE  Inv'
  <1>1. TypeInv'
    BY EndingType DEF Inv, TypeInv
  <1>2. CacheInv'
    BY EndingCache DEF Inv
  <1>3. CallInv'
    BY EndingCalls DEF Inv
  <1>4. HistoriesAreSerial'
    BY DEF Inv, HistoriesAreSerial, Ending
  <1>5. ServiceSavesNothing'
    <2>1. ASSUME NEW t \in Services, stage'[t] = "answered"
          PROVE  command'[t] = command[t] /\ t \in Tasks
      <3>1. t \in Tasks /\ Busy(t)'
        BY <2>1 DEF Busy, Tasks
      <3> QED
        BY <3>1 DEF Ending
    <2> QED
      BY <2>1 DEF Inv, ServiceSavesNothing, Ending
  <1> QED
    BY <1>1, <1>2, <1>3, <1>4, <1>5 DEF Inv

LEMMA ForgetKeeps ==
    ASSUME Forget
    PROVE  /\ DOMAIN command' = Tasks
           /\ \A t \in Tasks : Busy(t)' => command'[t] = command[t]
  BY DEF Forget, Busy

(* The store settles calls: those of S leave it.                           *)
LEMMA SettleEnds ==
    ASSUME TypeInv, NEW S \in SUBSET Tasks, NEW answers, Store!Settle(S, answers),
           UNCHANGED <<running, issued, loading>>, Forget
    PROVE  Ending
  <1>1. /\ stage' = [r \in Tasks |->
                        IF r \notin S THEN stage[r]
                        ELSE IF stage[r] = "pending" THEN "answered" ELSE "idle"]
        /\ call' = [r \in Tasks |->
                       IF r \in S /\ stage[r] = "abandoned" THEN Store!NoCall(r) ELSE call[r]]
        /\ DOMAIN reply' = Tasks
        /\ \A r \in S : stage[r] \in {"pending", "abandoned"}
    BY DEF Store!Settle, Store!Unanswered
  <1>2. stage' \in [Tasks -> Store!Stages]
    BY <1>1 DEF TypeInv, Store!Stages
  <1>3. \A t \in loading' : stage'[t] = "idle"
    BY <1>1 DEF TypeInv, Tasks
  <1>4. \A t \in Tasks : Store!Unanswered(t)' => Store!Unanswered(t) /\ call'[t] = call[t]
    BY <1>1 DEF Store!Unanswered
  <1>5. \A t \in Tasks : Busy(t)' => Busy(t)
    BY <1>1 DEF Busy
  <1> QED
    BY <1>1, <1>2, <1>3, <1>4, <1>5, ForgetKeeps DEF Ending

LEMMA RefusesInv ==
    ASSUME Inv, NEW S \in SUBSET Tasks, StoreRefuses(S), UNCHANGED running
    PROVE  Inv'
  <1>1. Ending
    BY SettleEnds DEF Inv, StoreRefuses, Store!Refuse
  <1>2. \A t \in Tasks : stage'[t] = "answered" /\ reply'[t] = "ok" =>
                            stage[t] = "answered" /\ reply[t] = "ok"
    BY DEF StoreRefuses, Store!Refuse, Store!Settle, Store!Refusals
  <1> QED
    BY <1>1, <1>2, EndingInv DEF StoreRefuses

LEMMA ReturnsInv ==
    ASSUME Inv, NEW t \in Tasks, CommandReturns(t) \/ Disconnect(t), UNCHANGED running
    PROVE  Inv'
  <1>1. /\ stage' \in [Tasks -> Store!Stages]
        /\ \A u \in Tasks : \/ stage'[u] = stage[u]
                            \/ stage'[u] = "idle"
                            \/ stage[u] = "pending" /\ stage'[u] = "abandoned"
        /\ DOMAIN call' = Tasks /\ DOMAIN reply' = Tasks
        /\ \A u \in Tasks : u # t => call'[u] = call[u] /\ stage'[u] = stage[u] /\ reply'[u] = reply[u]
        /\ Store!Unanswered(t)' => Store!Unanswered(t) /\ call'[t] = call[t]
        /\ stage'[t] # "answered"
    <2> USE DEF Inv, TypeInv, Store!Unanswered, Store!Stages
    <2>1. CASE CommandReturns(t)
      BY <2>1 DEF CommandReturns, Store!Return
    <2>2. CASE Store!Abandon(t)
      <3>1. stage[t] = "pending" /\ UNCHANGED reply
        BY <2>2 DEF Store!Abandon
      <3>2. CASE /\ stage' = [stage EXCEPT ![t] = "idle"]
                 /\ call' = [call EXCEPT ![t] = Store!NoCall(t)]
        BY <3>1, <3>2
      <3>3. CASE stage' = [stage EXCEPT ![t] = "abandoned"] /\ UNCHANGED call
        BY <3>1, <3>3
      <3> QED
        BY <2>2, <3>2, <3>3 DEF Store!Abandon
    <2>3. CASE t \in loading /\ UNCHANGED callVars
      BY <2>3 DEF callVars
    <2> QED
      BY <2>1, <2>2, <2>3 DEF Disconnect
  <1>2. /\ UNCHANGED <<stored, command_cache, issued>> /\ Forget /\ loading' \subseteq loading
    BY DEF CommandReturns, Disconnect
  <1>3. Ending
    <2>1. \A u \in loading' : stage'[u] = "idle"
      BY <1>1, <1>2 DEF Inv, TypeInv, Tasks
    <2>2. \A u \in Tasks : Busy(u)' => Busy(u)
      BY <1>1, <1>2 DEF Busy
    <2>3. \A u \in Tasks : Store!Unanswered(u)' => Store!Unanswered(u) /\ call'[u] = call[u]
      BY <1>1 DEF Store!Unanswered
    <2> QED
      BY <1>1, <1>2, <2>1, <2>2, <2>3, ForgetKeeps DEF Ending
  <1>4. \A u \in Tasks : stage'[u] = "answered" /\ reply'[u] = "ok" =>
                            stage[u] = "answered" /\ reply[u] = "ok"
    BY <1>1
  <1> QED
    BY <1>2, <1>3, <1>4, EndingInv

(* Nothing runs when the process starts again.                             *)
LEMMA RestartInv ==
    ASSUME Inv, Restart, UNCHANGED running
    PROVE  Inv'
  <1>1. /\ \A t \in Tasks : stage'[t] = "idle" /\ ~Busy(t)'
        /\ loading' = {} /\ command_cache' = {} /\ UNCHANGED <<stored, issued>>
    BY DEF Restart, Busy
  <1>2. TypeInv'
    BY <1>1 DEF Inv, TypeInv, Restart, Store!Stages
  <1>3. CacheInv'
    BY <1>1 DEF CacheInv, OneCommandPerAccount, Tasks
  <1>4. CallInv'
    BY <1>1 DEF CallInv, Store!Unanswered
  <1>5. HistoriesAreSerial' /\ ServiceSavesNothing'
    BY <1>1 DEF Inv, HistoriesAreSerial, ServiceSavesNothing, Tasks
  <1> QED
    BY <1>2, <1>3, <1>4, <1>5 DEF Inv

(* The store takes a call only at the version that it expects.             *)
LEMMA AcceptedAtItsVersion ==
    ASSUME Inv, NEW t \in Tasks, StoreAccepts(t)
    PROVE  /\ call[t].agg \in Ids /\ stored[call[t].agg] \in Seq(Events)
           /\ call[t].expected = Len(stored[call[t].agg])
           /\ Busy(t) /\ command[t] \in Commands /\ t \in running
  <1> DEFINE agg == call[t].agg
  <1>1. Store!Unanswered(t) /\ Store!Succeed(t)
    BY DEF StoreAccepts
  <1>2. agg \in Ids /\ call[t].expected \in Nat
    BY <1>1 DEF Inv, CallInv
  <1>3. stored[agg] \in Seq(Events) /\ Len(stored[agg]) \in Nat
    BY <1>2 DEF Inv, TypeInv
  <1>4. Store!IsCurrent(1 .. Len(stored[agg]), call[t].expected)
    BY <1>1, <1>2 DEF Store!Succeed
  <1>5. call[t].expected = Len(stored[agg])
    <2>1. CASE Len(stored[agg]) = 0
      BY <1>3, <1>4, <2>1 DEF Store!IsCurrent
    <2>2. CASE Len(stored[agg]) # 0
      <3>1. Len(stored[agg]) \in 1 .. Len(stored[agg])
        BY <1>3, <2>2
      <3>2. /\ call[t].expected \in 1 .. Len(stored[agg])
            /\ Len(stored[agg]) =< call[t].expected
        BY <1>4, <3>1 DEF Store!IsCurrent
      <3> QED
        BY <1>2, <1>3, <3>2
    <2> QED
      BY <2>1, <2>2
  <1>6. Busy(t)
    BY <1>1 DEF Busy, Store!Unanswered
  <1> QED
    BY <1>2, <1>3, <1>5, <1>6 DEF Inv, TypeInv

(* In a deployment of one front end, what the store takes continues the    *)
(* history as a command does that has it to itself; from a service it is   *)
(* the creation of an account.                                             *)
LEMMA AcceptedFits ==
    ASSUME Inv, NEW t \in Tasks, StoreAccepts(t)
    PROVE  /\ running \subseteq Handlers \/ running \subseteq Services =>
                 LET events == stored[call[t].agg] IN
                 \/ events = <<>> /\ command[t].kind = "create" /\ command[t].amount >= 0
                 \/ /\ events # <<>> /\ command[t].kind # "create"
                    /\ Accepts(Replay(events), command[t].kind, command[t].amount)
           /\ running \subseteq Services => command[t].kind = "create"
  <1> DEFINE events == stored[call[t].agg]
  <1>1. /\ events \in Seq(Events) /\ call[t].expected = Len(events) /\ t \in running
        /\ Store!Unanswered(t)
    BY AcceptedAtItsVersion, ZenonT(30) DEF StoreAccepts
  <1>2. Len(events) \in Nat /\ (events = <<>> <=> Len(events) = 0)
        /\ SubSeq(events, 1, Len(events)) = events
    BY <1>1
  <1>3. command[t].kind = "create" => events = <<>> /\ command[t].amount >= 0
    BY <1>1, <1>2 DEF Inv, CallInv
  <1>4. command[t].kind # "create" /\ t \in Handlers =>
           events # <<>> /\ Accepts(Replay(events), command[t].kind, command[t].amount)
    <2> SUFFICES ASSUME command[t].kind # "create", t \in Handlers
                 PROVE  events # <<>> /\ Accepts(Replay(events), command[t].kind, command[t].amount)
      OBVIOUS
    <2>1. Decided(t)
      BY <1>1 DEF Inv, CallInv
    <2>2. Len(events) \in 1 .. Len(events)
      BY <1>1, <2>1 DEF Decided
    <2>3. Accepts(Replay(SubSeq(events, 1, Len(events))), command[t].kind, command[t].amount)
      BY <1>1, <2>1 DEF Decided
    <2>4. events # <<>>
      BY <1>2, <2>2
    <2>5. SubSeq(events, 1, Len(events)) = events
      BY <1>2
    <2> HIDE DEF events
    <2> QED
      BY <2>3, <2>4, <2>5, Zenon
  <1>5. running \subseteq Services => command[t].kind = "create"
    <2> SUFFICES ASSUME running \subseteq Services, command[t].kind # "create" PROVE FALSE
      OBVIOUS
    <2>1. Ahead(t)
      BY <1>1 DEF Inv, CallInv
    <2> QED
      BY <1>1, <1>2, <2>1 DEF Ahead
  <1> QED
    BY <1>1, <1>3, <1>4, <1>5

LEMMA AcceptsInv ==
    ASSUME Inv, NEW t \in Tasks, StoreAccepts(t), UNCHANGED running
    PROVE  Inv'
  <1> DEFINE agg == call[t].agg
             e == Event(command[t])
  <1>1. /\ agg \in Ids /\ stored[agg] \in Seq(Events)
        /\ call[t].expected = Len(stored[agg])
        /\ Busy(t) /\ command[t] \in Commands /\ t \in running
    BY AcceptedAtItsVersion
  <1>2. /\ UNCHANGED <<loading, command_cache, issued>> /\ Forget /\ Store!Settle({t}, {"ok"})
        /\ stored' = [stored EXCEPT ![agg] = Append(@, e)]
    BY DEF StoreAccepts, Store!Succeed
  <1>3. Ending
    BY <1>2, SettleEnds DEF Inv
  <1>4. e \in Events
    BY <1>1, EventTypes
  <1>5. /\ stored' \in [Ids -> Seq(Events)]
        /\ stored'[agg] = Append(stored[agg], e)
        /\ \A i \in Ids : i # agg => stored'[i] = stored[i]
    <2> HIDE DEF agg, e
    <2>1. stored \in [Ids -> Seq(Events)]
      BY DEF Inv, TypeInv
    <2>2. Append(stored[agg], e) \in Seq(Events)
      BY <1>1, <1>4
    <2> QED
      BY <1>1, <1>2, <2>1, <2>2
  <1>6. stage'[t] \in {"answered", "idle"} /\ \A u \in Tasks : u # t => reply'[u] = reply[u] /\ stage'[u] = stage[u]
    BY <1>2 DEF Store!Settle
  <1>7. TypeInv' /\ CacheInv'
    BY <1>2, <1>3, <1>5, EndingType, EndingCache DEF Inv
  <1>8. CallInv'
    <2> SUFFICES ASSUME NEW u \in Tasks, Store!Unanswered(u)'
                 PROVE  /\ call'[u].agg \in Ids /\ call'[u].expected \in Nat
                        /\ command'[u].kind = "create" => call'[u].expected = 0 /\ command'[u].amount >= 0
                        /\ command'[u].kind # "create" =>
                              /\ u \in Handlers => Decided(u)'
                              /\ running' \subseteq Services => Ahead(u)'
      BY DEF CallInv
    <2>1. Store!Unanswered(u) /\ call'[u] = call[u] /\ running' = running
      BY <1>3 DEF Ending
    <2>2. command'[u] = command[u]
      <3>1. Busy(u)'
        BY DEF Busy, Store!Unanswered
      <3> QED
        BY <1>3, <3>1 DEF Ending
    <2>3. /\ call[u].agg \in Ids /\ call[u].expected \in Nat
          /\ command[u].kind = "create" => call[u].expected = 0 /\ command[u].amount >= 0
          /\ command[u].kind # "create" =>
                /\ u \in Handlers => Decided(u)
                /\ running \subseteq Services => Ahead(u)
      BY <2>1 DEF Inv, CallInv
    <2>4. ASSUME Decided(u) PROVE Decided(u)'
      <3>1. CASE call[u].agg # agg
        BY <1>5, <2>1, <2>2, <2>3, <2>4, <3>1 DEF Decided
      <3>2. CASE call[u].agg = agg
        <4> DEFINE n == call[u].expected
        <4>1. n \in 1 .. Len(stored[agg]) /\ Len(stored[agg]) \in Nat
          BY <1>1, <2>4, <3>2 DEF Decided
        <4>2. Len(stored'[agg]) = Len(stored[agg]) + 1 /\ SubSeq(stored'[agg], 1, n) = SubSeq(stored[agg], 1, n)
          <5>1. n \in 0 .. Len(stored[agg]) /\ stored[agg] \in Seq(Events)
            BY <1>1, <4>1
          <5> HIDE DEF agg, e, n
          <5>2. /\ Len(Append(stored[agg], e)) = Len(stored[agg]) + 1
                /\ SubSeq(Append(stored[agg], e), 1, n) = SubSeq(stored[agg], 1, n)
            BY <1>4, <5>1, PrefixStays, Zenon
          <5> QED
            BY <1>5, <5>2, Zenon
        <4>3. n \in 1 .. Len(stored'[agg])
          BY <4>1, <4>2
        <4>4. Accepts(Replay(SubSeq(stored[agg], 1, n)), command[u].kind, command[u].amount)
          BY <2>4, <3>2 DEF Decided
        <4>5. call'[u].agg = agg /\ call'[u].expected = n /\ command'[u] = command[u]
          BY <2>1, <2>2, <3>2
        <4> HIDE DEF agg, n
        <4> QED
          BY <4>2, <4>3, <4>4, <4>5, Zenon DEF Decided
      <3> QED
        BY <3>1, <3>2
    <2>5. ASSUME running \subseteq Services, Ahead(u) PROVE Ahead(u)'
      <3>1. stored[agg] = <<>>
        BY <2>5, AcceptedFits
      <3>2. call[u].agg # agg
        BY <2>5, <3>1 DEF Ahead
      <3> QED
        BY <1>5, <2>1, <2>3, <2>5, <3>2, ZenonT(30) DEF Ahead
    <2> QED
      BY <2>1, <2>2, <2>3, <2>4, <2>5
  <1>9. HistoriesAreSerial'
    <2> SUFFICES ASSUME running \subseteq Handlers \/ running \subseteq Services, NEW i \in Ids
                 PROVE  Serial(stored'[i])
      BY DEF HistoriesAreSerial
    <2>1. \A j \in Ids : Serial(stored[j])
      BY DEF Inv, HistoriesAreSerial
    <2>2. CASE i # agg
      BY <1>5, <2>1, <2>2
    <2>3. CASE i = agg
      <3>1. \/ stored[agg] = <<>> /\ command[t].kind = "create" /\ command[t].amount >= 0
            \/ /\ stored[agg] # <<>> /\ command[t].kind # "create"
               /\ Accepts(Replay(stored[agg]), command[t].kind, command[t].amount)
        BY AcceptedFits
      <3>2. Serial(Append(stored[agg], e))
        BY <1>1, <2>1, <3>1, SerialAppend
      <3> QED
        BY <1>5, <2>3, <3>2, ZenonT(30)
    <2> QED
      BY <2>2, <2>3
  <1>10. ServiceSavesNothing'
    <2> SUFFICES ASSUME running \subseteq Services, NEW u \in Services,
                        stage'[u] = "answered", reply'[u] = "ok"
                 PROVE  command'[u].kind = "create"
      BY DEF ServiceSavesNothing
    <2>1. u \in Tasks /\ Busy(u)'
      BY DEF Busy, Tasks
    <2>2. command'[u] = command[u]
      BY <1>3, <2>1 DEF Ending
    <2>3. CASE u = t
      BY <2>2, <2>3, AcceptedFits
    <2>4. CASE u # t
      BY <1>6, <2>1, <2>2, <2>4 DEF Inv, ServiceSavesNothing
    <2> QED
      BY <2>3, <2>4
  <1> QED
    BY <1>7, <1>8, <1>9, <1>10 DEF Inv

-----------------------------------------------------------------------------
(* A command that has decided calls save_events.                           *)
LEMMA SaveInv ==
    ASSUME Inv, NEW t \in running, NEW c \in Commands, NEW id \in Ids, NEW v \in Nat,
           Save(t, c, id, v), UNCHANGED running, loading' = loading \ {t},
           command_cache \subseteq command_cache', issued \subseteq issued',
           command_cache' \subseteq issued',
           t \in Services => /\ c.id \in command_cache'
                             /\ \A u \in Services \ {t} : Busy(u) => command[u].id # c.id,
           c.kind = "create" => v = 0 /\ c.amount >= 0,
           c.kind # "create" =>
               /\ t \in Handlers => /\ v \in 1 .. Len(stored[id])
                                    /\ Accepts(Replay(SubSeq(stored[id], 1, v)), c.kind, c.amount)
               /\ running \subseteq Services => stored[id] # <<>> /\ v = Len(stored[id]) + 1
    PROVE  Inv'
  <1>1. t \in Tasks /\ TypeInv
    BY DEF Inv, TypeInv
  <1>2. /\ UNCHANGED <<stored, reply>> /\ stage[t] = "idle"
        /\ stage' = [stage EXCEPT ![t] = "pending"]
        /\ command' = [command EXCEPT ![t] = c]
        /\ DOMAIN call' = Tasks /\ call'[t] = [agg |-> id, expected |-> v, count |-> 1]
        /\ \A u \in Tasks : u # t => call'[u] = call[u]
    BY <1>1 DEF TypeInv, Save, Store!Invoke
  <1>3. /\ stage'[t] = "pending" /\ command'[t] = c
        /\ \A u \in Tasks : u # t => stage'[u] = stage[u] /\ command'[u] = command[u]
        /\ \A u \in Tasks : u # t => (Busy(u)' <=> Busy(u))
        /\ DOMAIN command' = Tasks /\ stage' \in [Tasks -> Store!Stages]
    BY <1>1, <1>2 DEF TypeInv, Busy, Store!Stages
  <1>4. TypeInv'
    <2>1. \A u \in loading' : u \in Tasks /\ u # t /\ u \in loading
      BY DEF Inv, TypeInv, Tasks
    <2>2. \A u \in loading' : stage'[u] = "idle" /\ command'[u].kind \in {"deposit", "withdraw"}
      BY <1>1, <1>3, <2>1 DEF TypeInv
    <2>3. \A u \in Tasks : Busy(u)' => u \in running /\ command'[u] \in Commands
      BY <1>1, <1>3 DEF TypeInv
    <2> QED
      BY <1>1, <1>2, <1>3, <2>2, <2>3 DEF TypeInv
  <1>5. CacheInv'
    <2>1. \A u \in Services : u \in Tasks
      BY DEF Tasks
    <2>2. \A u \in Services : Busy(u)' => command'[u].id \in command_cache'
      BY <1>3, <2>1 DEF Inv, CacheInv
    <2>3. OneCommandPerAccount'
      <3> SUFFICES ASSUME NEW u \in Services, NEW w \in Services, u # w, Busy(u)', Busy(w)'
                   PROVE  command'[u].id # command'[w].id
        BY DEF OneCommandPerAccount
      <3>1. CASE u # t /\ w # t
        BY <1>3, <2>1, <3>1 DEF Inv, CacheInv, OneCommandPerAccount
      <3>2. CASE u = t
        BY <1>3, <2>1, <3>2
      <3>3. CASE w = t
        BY <1>3, <2>1, <3>3
      <3> QED
        BY <3>1, <3>2, <3>3
    <2> QED
      BY <2>2, <2>3 DEF CacheInv
  <1>6. CallInv'
    <2> SUFFICES ASSUME NEW u \in Tasks, Store!Unanswered(u)'
                 PROVE  /\ call'[u].agg \in Ids /\ call'[u].expected \in Nat
                        /\ command'[u].kind = "create" => call'[u].expected = 0 /\ command'[u].amount >= 0
                        /\ command'[u].kind # "create" =>
                              /\ u \in Handlers => Decided(u)'
                              /\ running' \subseteq Services => Ahead(u)'
      BY DEF CallInv
    <2>1. CASE u = t
      <3>1. /\ call'[u].agg = id /\ call'[u].expected = v /\ command'[u] = c
            /\ stored' = stored /\ running' = running
        BY <1>2, <1>3, <2>1
      <3>2. ASSUME c.kind # "create", u \in Handlers PROVE Decided(u)'
        <4>1. v \in 1 .. Len(stored[id]) /\ Accepts(Replay(SubSeq(stored[id], 1, v)), c.kind, c.amount)
          BY <2>1, <3>2
        <4> QED
          BY <3>1, <4>1 DEF Decided
      <3>3. ASSUME c.kind # "create", running' \subseteq Services PROVE Ahead(u)'
        <4>1. stored[id] # <<>> /\ v = Len(stored[id]) + 1
          BY <3>1, <3>3
        <4> QED
          BY <3>1, <4>1 DEF Ahead
      <3>4. c.kind = "create" => v = 0 /\ c.amount >= 0
        OBVIOUS
      <3> QED
        BY <3>1, <3>2, <3>3, <3>4
    <2>2. CASE u # t
      <3>1. /\ call'[u] = call[u] /\ command'[u] = command[u] /\ stage'[u] = stage[u]
            /\ stored' = stored /\ running' = running
        BY <1>2, <1>3, <2>2
      <3>2. Store!Unanswered(u)
        BY <3>1 DEF Store!Unanswered
      <3>3. /\ call[u].agg \in Ids /\ call[u].expected \in Nat
            /\ command[u].kind = "create" => call[u].expected = 0 /\ command[u].amount >= 0
            /\ command[u].kind # "create" =>
                  /\ u \in Handlers => Decided(u)
                  /\ running \subseteq Services => Ahead(u)
        BY <3>2 DEF Inv, CallInv
      <3>4. (Decided(u)' <=> Decided(u)) /\ (Ahead(u)' <=> Ahead(u))
        BY <3>1 DEF Decided, Ahead
      <3> QED
        BY <3>1, <3>3, <3>4
    <2> QED
      BY <2>1, <2>2
  <1>7. HistoriesAreSerial'
    BY <1>2 DEF Inv, HistoriesAreSerial
  <1>8. ServiceSavesNothing'
    <2>1. \A u \in Services : u \in Tasks
      BY DEF Tasks
    <2> QED
      BY <1>2, <1>3, <2>1 DEF Inv, ServiceSavesNothing
  <1> QED
    BY <1>4, <1>5, <1>6, <1>7, <1>8 DEF Inv

(* A command that is refused, by handle_command or for want of an account. *)
LEMMA RefusedInv ==
    ASSUME Inv, NEW t, UNCHANGED <<running, stored, callVars, command>>, loading' = loading \ {t},
           command_cache \subseteq command_cache', issued \subseteq issued',
           command_cache' \subseteq issued'
    PROVE  Inv'
  <1>1. \A u : Busy(u)' => Busy(u)
    BY DEF Busy, callVars
  <1>2. TypeInv'
    BY <1>1 DEF Inv, TypeInv, callVars
  <1>3. CacheInv'
    BY <1>1 DEF Inv, CacheInv, OneCommandPerAccount
  <1>4. CallInv'
    BY DEF Inv, CallInv, Decided, Ahead, Store!Unanswered, callVars
  <1>5. HistoriesAreSerial' /\ ServiceSavesNothing'
    BY DEF Inv, HistoriesAreSerial, ServiceSavesNothing, callVars
  <1> QED
    BY <1>2, <1>3, <1>4, <1>5 DEF Inv

LEMMA LoadInv ==
    ASSUME Inv, NEW t \in running, NEW c \in Commands, c.kind # "create",
           LoadAndDecide(t, c), UNCHANGED <<running, command_cache, issued>>,
           loading' = loading \ {t},
           t \in Services => /\ c.id \in command_cache
                             /\ \A u \in Services \ {t} : Busy(u) => command[u].id # c.id
    PROVE  Inv'
  <1> DEFINE events == stored[c.id]
             account == Replay(events)
  <1>1. command_cache \subseteq issued
    BY DEF Inv, CacheInv
  <1>2. CASE UNCHANGED <<stored, callVars, command>>
    BY <1>1, <1>2, RefusedInv
  <1>3. CASE /\ events # <<>> /\ Accepts(account, c.kind, c.amount)
             /\ Save(t, c, c.id, Expected(t, account))
    <2>1. c.id \in Ids
      BY EventTypes
    <2>2. events \in Seq(Events)
      BY <2>1 DEF Inv, TypeInv
    <2>3. Len(events) \in Nat /\ (events # <<>> => Len(events) > 0) /\ SubSeq(events, 1, Len(events)) = events
      BY <2>2
    <2>4. account.version = Len(events)
      BY <2>2, ReplayType DEF IsAccount
    <2>5. CASE t \in Services
      <3>1. Expected(t, account) = Len(events) + 1 /\ t \notin Handlers
        BY <2>4, <2>5, AccountCommandsAssumption DEF Expected
      <3>2. Save(t, c, c.id, Len(events) + 1)
        BY <1>3, <3>1
      <3>3. Len(events) + 1 \in Nat
        BY <2>3
      <3> QED
        BY <1>1, <1>3, <2>1, <2>3, <2>5, <3>1, <3>2, <3>3, SaveInv
    <2>6. CASE t \notin Services
      <3>1. Expected(t, account) = Len(events)
        BY <2>4, <2>6 DEF Expected
      <3>2. Len(events) \in 1 .. Len(events)
        BY <1>3, <2>3
      <3>3. Accepts(Replay(SubSeq(events, 1, Len(events))), c.kind, c.amount)
        BY <1>3, <2>3, Zenon
      <3> QED
        BY <1>1, <1>3, <2>1, <2>3, <2>6, <3>1, <3>2, <3>3, SaveInv
    <2> QED
      BY <2>5, <2>6
  <1> QED
    BY <1>2, <1>3 DEF LoadAndDecide

LEMMA HandlerInv ==
    ASSUME Inv, NEW t \in Handlers, HandlerStep(t), UNCHANGED running
    PROVE  Inv'
  <1>1. t \notin Services /\ command_cache \subseteq issued
    BY AccountCommandsAssumption DEF Inv, CacheInv
  <1>2. ASSUME NEW id \in Ids, NEW amount \in Amounts, HandleCreateAccount(t, id, amount) PROVE Inv'
    <2> DEFINE c == [kind |-> "create", id |-> id, amount |-> amount]
    <2>1. /\ t \in running /\ t \notin loading /\ UNCHANGED <<loading, command_cache>>
          /\ issued' = issued \cup {id} /\ amount >= 0
          /\ Save(t, c, id, 0)
      BY <1>2 DEF HandleCreateAccount, Free, Busy, Accepts
    <2>2. c \in Commands
      BY DEF Commands, Kinds
    <2> QED
      BY <1>1, <2>1, <2>2, SaveInv
  <1>3. ASSUME NEW c \in Nameable, HandleCommand(t, c) PROVE Inv'
    BY <1>1, <1>3, LoadInv DEF HandleCommand, Free, Busy, Nameable
  <1> QED
    BY <1>2, <1>3 DEF HandlerStep

(* The id is new to is_duplicate_command, and no command that runs has it. *)
LEMMA CreateInv ==
    ASSUME Inv, NEW t \in Services, NEW id \in Ids, NEW amount \in Amounts,
           CreateAccount(t, id, amount), UNCHANGED running
    PROVE  Inv'
  <1> DEFINE c == [kind |-> "create", id |-> id, amount |-> amount]
  <1>1. /\ t \in running /\ t \notin loading /\ UNCHANGED loading
        /\ command_cache' = command_cache \cup {id} /\ id \notin issued
    BY DEF CreateAccount, Free, Busy
  <1>2. c \in Commands /\ command_cache \subseteq issued
    BY DEF Inv, CacheInv, Commands, Kinds
  <1>3. \A u \in Services : Busy(u) => command[u].id # id
    BY <1>1 DEF Inv, CacheInv
  <1>4. CASE Accepts(Default, "create", amount)
    <2>1. PICK default_id \in Ids : issued' = issued \cup {id, default_id} /\ Save(t, c, default_id, 0)
      BY <1>4 DEF CreateAccount
    <2>2. amount >= 0
      BY <1>4 DEF Accepts
    <2> QED
      BY <1>1, <1>2, <1>3, <2>1, <2>2, SaveInv
  <1>5. CASE ~Accepts(Default, "create", amount)
    <2>1. issued' = issued \cup {id} /\ UNCHANGED <<stored, callVars, command>>
      BY <1>5 DEF CreateAccount
    <2>2. /\ loading' = loading \ {t} /\ command_cache \subseteq command_cache'
          /\ issued \subseteq issued' /\ command_cache' \subseteq issued'
      BY <1>1, <1>2, <2>1
    <2> QED
      BY <2>1, <2>2, RefusedInv, Zenon
  <1> QED
    BY <1>4, <1>5

LEMMA CheckInv ==
    ASSUME Inv, NEW t \in Services, NEW c \in Nameable, CheckDuplicate(t, c), UNCHANGED running
    PROVE  Inv'
  <1>1. /\ t \in running /\ ~Busy(t) /\ c.kind \in {"deposit", "withdraw"}
        /\ c.id \notin command_cache /\ command_cache' = command_cache \cup {c.id}
        /\ command' = [command EXCEPT ![t] = c] /\ loading' = loading \cup {t}
        /\ UNCHANGED <<stored, stage, call, reply, issued>>
    BY DEF CheckDuplicate, Free, callVars
  <1>2. t \in Tasks /\ TypeInv /\ c \in Commands /\ c.id \in issued
    BY DEF Inv, Tasks, Nameable
  <1>3. /\ command'[t] = c /\ stage[t] = "idle"
        /\ \A u \in Tasks : u # t => command'[u] = command[u] /\ (Busy(u)' <=> Busy(u))
    BY <1>1, <1>2 DEF TypeInv, Busy
  <1>4. TypeInv'
    <2>1. \A u \in loading' : stage'[u] = "idle" /\ command'[u].kind \in {"deposit", "withdraw"}
      BY <1>1, <1>2, <1>3 DEF TypeInv, Tasks
    <2>2. \A u \in Tasks : Busy(u)' => u \in running /\ command'[u] \in Commands
      BY <1>1, <1>2, <1>3 DEF TypeInv
    <2> QED
      BY <1>1, <1>2, <2>1, <2>2 DEF TypeInv
  <1>5. CacheInv'
    <2>1. \A u \in Services : u \in Tasks
      BY DEF Tasks
    <2>2. /\ command_cache' \subseteq issued'
          /\ \A u \in Services : Busy(u)' => command'[u].id \in command_cache'
      BY <1>1, <1>2, <1>3, <2>1 DEF Inv, CacheInv
    <2>3. \A u \in Services : u # t /\ Busy(u)' => command'[u].id # c.id
      BY <1>1, <1>3, <2>1 DEF Inv, CacheInv
    <2>4. OneCommandPerAccount'
      BY <1>3, <2>1, <2>3 DEF Inv, CacheInv, OneCommandPerAccount
    <2> QED
      BY <2>2, <2>4 DEF CacheInv
  <1>6. CallInv'
    <2>1. \A u \in Tasks : Store!Unanswered(u)' => u # t /\ Store!Unanswered(u)
      BY <1>1, <1>3 DEF Store!Unanswered
    <2> QED
      BY <1>1, <1>3, <2>1 DEF Inv, CallInv, Decided, Ahead
  <1>7. HistoriesAreSerial'
    BY <1>1 DEF Inv, HistoriesAreSerial
  <1>8. ServiceSavesNothing'
    BY <1>1, <1>3 DEF Inv, ServiceSavesNothing, Tasks
  <1> QED
    BY <1>4, <1>5, <1>6, <1>7, <1>8 DEF Inv

LEMMA ServiceLoadInv ==
    ASSUME Inv, NEW t \in Services, ServiceLoad(t), UNCHANGED running
    PROVE  Inv'
  <1>1. t \in loading /\ Busy(t) /\ t \in Tasks
    BY DEF ServiceLoad, Busy, Tasks
  <1>2. t \in running /\ command[t] \in Commands /\ command[t].kind # "create"
    BY <1>1 DEF Inv, TypeInv
  <1>3. /\ command[t].id \in command_cache
        /\ \A u \in Services \ {t} : Busy(u) => command[u].id # command[t].id
    BY <1>1 DEF Inv, CacheInv, OneCommandPerAccount
  <1> QED
    BY <1>2, <1>3, LoadInv DEF ServiceLoad

LEMMA InitInv == Init => Inv
  <1> SUFFICES ASSUME Init PROVE Inv
    OBVIOUS
  <1>1. /\ \A t \in Tasks : stage[t] = "idle" /\ ~Busy(t)
        /\ loading = {} /\ command_cache = {} /\ stored = InitialEvents /\ running \in SUBSET Tasks
    BY AccountCommandsAssumption DEF Init, Busy, Store!LogInit
  <1>2. TypeInv
    BY <1>1, AccountCommandsAssumption DEF Init, TypeInv, Store!LogInit, Store!Stages
  <1>3. CacheInv
    BY <1>1 DEF CacheInv, OneCommandPerAccount, Tasks
  <1>4. CallInv
    BY <1>1 DEF CallInv, Store!Unanswered
  <1>5. HistoriesAreSerial
    BY <1>1, InitialEventsSerial DEF HistoriesAreSerial
  <1>6. ServiceSavesNothing
    BY <1>1 DEF ServiceSavesNothing, Tasks
  <1> QED
    BY <1>2, <1>3, <1>4, <1>5, <1>6 DEF Inv

LEMMA NextInv == Inv /\ [Next]_vars => Inv'
  <1> SUFFICES ASSUME Inv, [Next]_vars PROVE Inv'
    OBVIOUS
  <1>1. CASE UNCHANGED vars
    <2>1. Ending
      BY <1>1 DEF Inv, TypeInv, Ending, vars, callVars, Busy, Store!Unanswered
    <2> QED
      BY <1>1, <2>1, EndingInv DEF vars, callVars
  <1>2. CASE Next
    <2>1. UNCHANGED running
      BY <1>2 DEF Next
    <2>2. ASSUME NEW t \in Services, ServiceStep(t) PROVE Inv'
      BY <2>1, <2>2, CreateInv, CheckInv, ServiceLoadInv DEF ServiceStep
    <2>3. ASSUME NEW t \in Tasks, StoreAccepts(t) \/ CommandReturns(t) \/ Abort(t) \/ Disconnect(t)
          PROVE  Inv'
      BY <2>1, <2>3, AcceptsInv, ReturnsInv, RestartInv DEF Abort
    <2>4. ASSUME NEW S \in SUBSET Tasks, StoreRefuses(S) PROVE Inv'
      BY <2>1, <2>4, RefusesInv
    <2>5. CASE Crash
      BY <2>1, <2>5, RestartInv DEF Crash
    <2> QED
      BY <1>2, <2>1, <2>2, <2>3, <2>4, <2>5, HandlerInv DEF Next, Step
  <1> QED
    BY <1>1, <1>2

LEMMA InvHolds == Spec => []Inv
  BY InitInv, NextInv, PTL DEF Spec

-----------------------------------------------------------------------------
(* However the commands of the handlers interleave, or those of the        *)
(* service, every history in the store is one that commands run one after  *)
(* the other produce.  The version check of save_events is enough: a       *)
(* command that decided on a stale account expects a version that is not   *)
(* the current one.                                                        *)
THEOREM StoredHistoriesAreSerial == Spec => []HistoriesAreSerial
  <1>1. Inv => HistoriesAreSerial
    BY DEF Inv
  <1> QED
    BY InvHolds, <1>1, PTL

(* is_duplicate_command keeps two commands of the service off one account  *)
(* for as long as the first of them runs.                                  *)
THEOREM ServiceCommandsExclude == Spec => []OneCommandPerAccount
  <1>1. Inv => OneCommandPerAccount
    BY DEF Inv, CacheInv
  <1> QED
    BY InvHolds, <1>1, PTL

(* deposit_money and withdraw_money of AccountService never store their    *)
(* event when the service works alone: the account they save is one event  *)
(* ahead of the store.                                                     *)
THEOREM DepositsNeverSaved == Spec => []ServiceSavesNothing
  <1>1. Inv => ServiceSavesNothing
    BY DEF Inv
  <1> QED
    BY InvHolds, <1>1, PTL

-----------------------------------------------------------------------------
(* The command of t has been answered with Ok.                             *)
Acknowledged(t) == stage[t] = "answered" /\ reply[t] = "ok"

(* Where the event of a command goes: right after the version it expects.  *)
Slot(t) == call[t].expected + 1

(* A command that is told Ok finds its event in the history, right after   *)
(* the version it expected, and no two of them the same event.             *)
AcknowledgedIsStored ==
    /\ \A t \in Tasks : Acknowledged(t) =>
          /\ call[t].agg \in Ids
          /\ Slot(t) \in 1 .. Len(stored[call[t].agg])
          /\ stored[call[t].agg][Slot(t)] = Event(command[t])
    /\ \A t, u \in Tasks : Acknowledged(t) /\ Acknowledged(u) /\ t # u =>
          call[t].agg # call[u].agg \/ Slot(t) # Slot(u)

(* An account is created by the first event of its history, and by no      *)
(* other.                                                                  *)
CreatedFirst ==
    \A i \in Ids : \A n \in 1 .. Len(stored[i]) : stored[i][n].type = "AccountCreated" <=> n = 1

(* Creating is what the commands do that expect no event.                  *)
CreatesAtZero ==
    \A t \in Tasks : Store!Unanswered(t) =>
        /\ call[t].expected \in Nat
        /\ command[t].kind = "create" <=> call[t].expected = 0

AnswersInv == AcknowledgedIsStored /\ CreatedFirst /\ CreatesAtZero

(* The calls that an action leaves as they are.                            *)
CallsStay ==
    /\ \A t \in Tasks : Acknowledged(t)' => /\ Acknowledged(t)
                                            /\ call'[t] = call[t] /\ command'[t] = command[t]
    /\ \A t \in Tasks : Store!Unanswered(t)' => /\ Store!Unanswered(t)
                                                /\ call'[t] = call[t] /\ command'[t] = command[t]

LEMMA StoredStay ==
    ASSUME AcknowledgedIsStored, UNCHANGED stored,
           \A t \in Tasks : Acknowledged(t)' => /\ Acknowledged(t)
                                                /\ call'[t] = call[t] /\ command'[t] = command[t]
    PROVE  AcknowledgedIsStored'
  <1>1. ASSUME NEW t \in Tasks, Acknowledged(t)'
        PROVE  /\ call'[t].agg \in Ids
               /\ Slot(t)' \in 1 .. Len(stored'[call'[t].agg])
               /\ stored'[call'[t].agg][Slot(t)'] = Event(command'[t])
    <2>1. Acknowledged(t) /\ call'[t] = call[t] /\ command'[t] = command[t] /\ stored' = stored
      BY <1>1
    <2>2. Slot(t)' = Slot(t)
      BY <2>1 DEF Slot
    <2> QED
      BY <2>1, <2>2 DEF AcknowledgedIsStored
  <1>2. ASSUME NEW t \in Tasks, NEW u \in Tasks, Acknowledged(t)', Acknowledged(u)', t # u
        PROVE  call'[t].agg # call'[u].agg \/ Slot(t)' # Slot(u)'
    <2>1. /\ Acknowledged(t) /\ call'[t] = call[t]
          /\ Acknowledged(u) /\ call'[u] = call[u]
      BY <1>2
    <2>2. Slot(t)' = Slot(t) /\ Slot(u)' = Slot(u)
      BY <2>1 DEF Slot
    <2> QED
      BY <1>2, <2>1, <2>2 DEF AcknowledgedIsStored
  <1> QED
    BY <1>1, <1>2 DEF AcknowledgedIsStored

LEMMA AnswersStay ==
    ASSUME AnswersInv, CallsStay, UNCHANGED stored
    PROVE  AnswersInv'
  <1>1. AcknowledgedIsStored'
    BY StoredStay DEF AnswersInv, CallsStay
  <1>2. CreatedFirst'
    BY DEF AnswersInv, CreatedFirst
  <1>3. CreatesAtZero'
    BY DEF AnswersInv, CreatesAtZero, CallsStay
  <1> QED
    BY <1>1, <1>2, <1>3 DEF AnswersInv

(* Forget keeps the command of a call that is not over.                    *)
LEMMA ForgetKeepsCalls ==
    ASSUME Forget, NEW t \in Tasks, stage'[t] # "idle"
    PROVE  command'[t] = command[t]
  BY DEF Forget

LEMMA RefusesStay ==
    ASSUME NEW S \in SUBSET Tasks, StoreRefuses(S)
    PROVE  CallsStay /\ UNCHANGED stored
  <1>1. /\ Forget /\ UNCHANGED stored
        /\ \A r \in S : stage[r] \in {"pending", "abandoned"}
        /\ stage' = [r \in Tasks |->
                        IF r \notin S THEN stage[r]
                        ELSE IF stage[r] = "pending" THEN "answered" ELSE "idle"]
        /\ call' = [r \in Tasks |->
                       IF r \in S /\ stage[r] = "abandoned" THEN Store!NoCall(r) ELSE call[r]]
    BY DEF StoreRefuses, Store!Refuse, Store!Settle, Store!Unanswered
  <1>2. PICK answer \in Store!Refusals :
           reply' = [r \in Tasks |-> IF r \in S /\ stage[r] = "pending" THEN answer ELSE reply[r]]
    BY DEF StoreRefuses, Store!Refuse, Store!Settle
  <1>3. answer # "ok"
    BY DEF Store!Refusals
  <1>4. ASSUME NEW t \in Tasks, Acknowledged(t)'
        PROVE  t \notin S /\ Acknowledged(t) /\ call'[t] = call[t]
    BY <1>1, <1>2, <1>3, <1>4 DEF Acknowledged
  <1>5. ASSUME NEW t \in Tasks, Store!Unanswered(t)'
        PROVE  t \notin S /\ Store!Unanswered(t) /\ call'[t] = call[t]
    BY <1>1, <1>5 DEF Store!Unanswered
  <1>6. ASSUME NEW t \in Tasks, Acknowledged(t)' \/ Store!Unanswered(t)'
        PROVE  command'[t] = command[t]
    BY <1>1, <1>6, ForgetKeepsCalls DEF Acknowledged, Store!Unanswered
  <1> QED
    BY <1>1, <1>4, <1>5, <1>6 DEF CallsStay

LEMMA ReturnsStay ==
    ASSUME TypeInv, NEW t \in Tasks, CommandReturns(t) \/ Disconnect(t)
    PROVE  CallsStay /\ UNCHANGED stored
  <1>1. /\ Forget /\ UNCHANGED stored
        /\ \A u \in Tasks : u # t => call'[u] = call[u] /\ stage'[u] = stage[u] /\ reply'[u] = reply[u]
        /\ Store!Unanswered(t)' => Store!Unanswered(t) /\ call'[t] = call[t]
        /\ ~Acknowledged(t)'
    <2> USE DEF TypeInv, Store!Unanswered, Acknowledged
    <2>1. CASE CommandReturns(t)
      BY <2>1 DEF CommandReturns, Store!Return
    <2>2. CASE Store!Abandon(t) /\ Disconnect(t)
      BY <2>2 DEF Store!Abandon, Disconnect
    <2>3. CASE t \in loading /\ UNCHANGED callVars /\ Disconnect(t)
      BY <2>3 DEF callVars, Disconnect
    <2> QED
      BY <2>1, <2>2, <2>3 DEF Disconnect
  <1>2. ASSUME NEW u \in Tasks, Acknowledged(u)' \/ Store!Unanswered(u)'
        PROVE  command'[u] = command[u]
    BY <1>1, <1>2, ForgetKeepsCalls DEF Acknowledged, Store!Unanswered
  <1>3. ASSUME NEW u \in Tasks, Acknowledged(u)'
        PROVE  Acknowledged(u) /\ call'[u] = call[u]
    BY <1>1, <1>3 DEF Acknowledged
  <1>4. ASSUME NEW u \in Tasks, Store!Unanswered(u)'
        PROVE  Store!Unanswered(u) /\ call'[u] = call[u]
    BY <1>1, <1>4 DEF Store!Unanswered
  <1> QED
    BY <1>1, <1>2, <1>3, <1>4 DEF CallsStay

LEMMA RestartStay ==
    ASSUME Restart
    PROVE  CallsStay /\ UNCHANGED stored
  BY DEF Restart, CallsStay, Acknowledged, Store!Unanswered

(* A command that saves expects 0 when it creates, and more otherwise.     *)
LEMMA SaveAnswers ==
    ASSUME Inv, AnswersInv, NEW t \in Tasks, NEW c, NEW id, NEW v \in Nat, Save(t, c, id, v),
           c.kind = "create" <=> v = 0
    PROVE  AnswersInv' /\ UNCHANGED stored
  <1>1. /\ UNCHANGED <<stored, reply>>
        /\ stage'[t] = "pending" /\ call'[t].expected = v /\ command'[t] = c
    BY DEF Inv, TypeInv, Save, Store!Invoke
  <1>2. \A u \in Tasks : u # t => stage'[u] = stage[u] /\ call'[u] = call[u] /\ command'[u] = command[u]
    BY DEF Inv, TypeInv, Save, Store!Invoke
  <1>3. ASSUME NEW u \in Tasks, Acknowledged(u)'
        PROVE  Acknowledged(u) /\ call'[u] = call[u] /\ command'[u] = command[u]
    BY <1>1, <1>2, <1>3 DEF Acknowledged
  <1>4. AcknowledgedIsStored'
    BY <1>1, <1>3, StoredStay DEF AnswersInv
  <1>5. CreatedFirst'
    BY <1>1 DEF AnswersInv, CreatedFirst
  <1>6. CreatesAtZero'
    <2> SUFFICES ASSUME NEW u \in Tasks, Store!Unanswered(u)'
                 PROVE  call'[u].expected \in Nat /\ (command'[u].kind = "create" <=> call'[u].expected = 0)
      BY DEF CreatesAtZero
    <2>1. CASE u = t
      BY <1>1, <2>1
    <2>2. CASE u # t
      <3>1. Store!Unanswered(u)
        BY <1>2, <2>2 DEF Store!Unanswered
      <3> QED
        BY <1>2, <2>2, <3>1 DEF AnswersInv, CreatesAtZero
    <2> QED
      BY <2>1, <2>2
  <1> QED
    BY <1>1, <1>4, <1>5, <1>6 DEF AnswersInv

(* A command that ends without a call, or has yet to call.                 *)
LEMMA NoCallStay ==
    ASSUME TypeInv, UNCHANGED <<stored, callVars>>,
           \A t \in Tasks : stage[t] # "idle" => command'[t] = command[t]
    PROVE  CallsStay /\ UNCHANGED stored
  BY DEF CallsStay, callVars, Acknowledged, Store!Unanswered

LEMMA LoadAnswers ==
    ASSUME Inv, AnswersInv, NEW t \in Tasks, NEW c \in Commands, c.kind # "create", LoadAndDecide(t, c)
    PROVE  AnswersInv' /\ UNCHANGED stored
  <1> DEFINE events == stored[c.id]
             account == Replay(events)
  <1>1. c.id \in Ids
    BY EventTypes
  <1>2. events \in Seq(Events)
    BY <1>1 DEF Inv, TypeInv
  <1>3. account.version = Len(events) /\ Len(events) \in Nat /\ (events # <<>> => Len(events) > 0)
    BY <1>2, ReplayType DEF IsAccount
  <1>4. CASE UNCHANGED <<stored, callVars, command>>
    BY <1>4, NoCallStay, AnswersStay DEF Inv
  <1>5. CASE events # <<>> /\ Save(t, c, c.id, Expected(t, account))
    <2> DEFINE v == Expected(t, account)
    <2>1. v \in Nat /\ v > 0
      BY <1>3, <1>5 DEF Expected
    <2>2. c.kind = "create" <=> v = 0
      BY <2>1
    <2>3. Save(t, c, c.id, v)
      BY <1>5
    <2> HIDE DEF v
    <2> QED
      BY <2>1, <2>2, <2>3, SaveAnswers
  <1> QED
    BY <1>4, <1>5 DEF LoadAndDecide

LEMMA HandlerAnswers ==
    ASSUME Inv, AnswersInv, NEW t \in Handlers, HandlerStep(t)
    PROVE  AnswersInv' /\ UNCHANGED stored
  <1>1. t \in Tasks
    BY DEF Tasks
  <1>2. ASSUME NEW id \in Ids, NEW amount \in Amounts, HandleCreateAccount(t, id, amount)
        PROVE  AnswersInv' /\ UNCHANGED stored
    <2> DEFINE c == [kind |-> "create", id |-> id, amount |-> amount]
    <2>1. Save(t, c, id, 0) /\ c.kind = "create"
      BY <1>2 DEF HandleCreateAccount
    <2> QED
      BY <1>1, <2>1, SaveAnswers
  <1>3. ASSUME NEW c \in Nameable, HandleCommand(t, c)
        PROVE  AnswersInv' /\ UNCHANGED stored
    BY <1>1, <1>3, LoadAnswers DEF HandleCommand, Nameable
  <1> QED
    BY <1>2, <1>3 DEF HandlerStep

LEMMA ServiceAnswers ==
    ASSUME Inv, AnswersInv, NEW t \in Services, ServiceStep(t)
    PROVE  AnswersInv' /\ UNCHANGED stored
  <1>1. t \in Tasks
    BY DEF Tasks
  <1>2. ASSUME NEW id \in Ids, NEW amount \in Amounts, CreateAccount(t, id, amount)
        PROVE  AnswersInv' /\ UNCHANGED stored
    <2> DEFINE c == [kind |-> "create", id |-> id, amount |-> amount]
    <2>1. CASE UNCHANGED <<stored, callVars, command>>
      BY <2>1, NoCallStay, AnswersStay DEF Inv
    <2>2. ASSUME NEW default_id \in Ids, Save(t, c, default_id, 0)
          PROVE  AnswersInv' /\ UNCHANGED stored
      BY <1>1, <2>2, SaveAnswers
    <2> QED
      BY <1>2, <2>1, <2>2 DEF CreateAccount
  <1>3. ASSUME NEW c \in Nameable, CheckDuplicate(t, c)
        PROVE  AnswersInv' /\ UNCHANGED stored
    <2>1. UNCHANGED <<stored, callVars>> /\ stage[t] = "idle" /\ command' = [command EXCEPT ![t] = c]
      BY <1>3 DEF CheckDuplicate, Free, Busy
    <2>2. \A u \in Tasks : stage[u] # "idle" => command'[u] = command[u]
      BY <2>1 DEF Inv, TypeInv
    <2> QED
      BY <2>1, <2>2, NoCallStay, AnswersStay DEF Inv
  <1>4. CASE ServiceLoad(t)
    <2>1. t \in loading /\ LoadAndDecide(t, command[t]) /\ Busy(t)
      BY <1>4 DEF ServiceLoad, Busy
    <2>2. command[t] \in Commands /\ command[t].kind # "create"
      BY <1>1, <2>1 DEF Inv, TypeInv
    <2> QED
      BY <1>1, <2>1, <2>2, LoadAnswers
  <1> QED
    BY <1>2, <1>3, <1>4 DEF ServiceStep

(* The store takes a call at the end of the history: behind every event    *)
(* that was acknowledged before.                                           *)
LEMMA AcceptsAnswers ==
    ASSUME Inv, AnswersInv, NEW t \in Tasks, StoreAccepts(t)
    PROVE  /\ AnswersInv'
           /\ \A i \in Ids : /\ Len(stored[i]) =< Len(stored'[i])
                             /\ SubSeq(stored'[i], 1, Len(stored[i])) = stored[i]
  <1> DEFINE agg == call[t].agg
             e == Event(command[t])
             events == stored[agg]
  <1>1. /\ agg \in Ids /\ events \in Seq(Events) /\ Len(events) \in Nat
        /\ call[t].expected = Len(events) /\ command[t] \in Commands
    BY AcceptedAtItsVersion
  <1>2. e \in Events /\ (e.type = "AccountCreated" <=> command[t].kind = "create")
    BY <1>1, EventTypes DEF Event, EventOf, Commands, Kinds
  <1>3. /\ Forget /\ Store!Settle({t}, {"ok"}) /\ Store!Unanswered(t)
        /\ stored' = [stored EXCEPT ![agg] = Append(@, e)]
    BY DEF StoreAccepts, Store!Succeed
  <1>4. /\ stored'[agg] = Append(events, e)
        /\ \A i \in Ids : i # agg => stored'[i] = stored[i]
        /\ \A i \in Ids : stored[i] \in Seq(Events)
    BY <1>1, <1>3 DEF Inv, TypeInv
  <1>5. /\ Len(stored'[agg]) = Len(events) + 1
        /\ stored'[agg][Len(events) + 1] = e
        /\ \A n \in 1 .. Len(events) : stored'[agg][n] = events[n]
    BY <1>1, <1>2, <1>4
  <1>6. /\ \A u \in Tasks : u # t => stage'[u] = stage[u] /\ call'[u] = call[u] /\ reply'[u] = reply[u]
        /\ ~Store!Unanswered(t)'
        /\ stage'[t] = "answered" => call'[t] = call[t]
    BY <1>3 DEF Store!Settle, Store!Unanswered
  <1>7. \A u \in Tasks : stage'[u] # "idle" => command'[u] = command[u]
    BY <1>3, ForgetKeepsCalls
  <1>8. ASSUME NEW u \in Tasks, u # t, Acknowledged(u)'
        PROVE  /\ Acknowledged(u) /\ call'[u] = call[u] /\ command'[u] = command[u]
               /\ Slot(u)' = Slot(u) /\ call[u].agg \in Ids
               /\ Slot(u) \in 1 .. Len(stored[call[u].agg])
               /\ stored[call[u].agg][Slot(u)] = Event(command[u])
    BY <1>6, <1>7, <1>8 DEF Acknowledged, Slot, AnswersInv, AcknowledgedIsStored
  <1>9. ASSUME Acknowledged(t)'
        PROVE  call'[t] = call[t] /\ command'[t] = command[t] /\ Slot(t)' = Len(events) + 1
    <2>1. stage'[t] = "answered" /\ call'[t] = call[t] /\ command'[t] = command[t]
      BY <1>6, <1>7, <1>9 DEF Acknowledged
    <2> QED
      BY <1>1, <2>1 DEF Slot
  <1>10. AcknowledgedIsStored'
    <2>1. ASSUME NEW u \in Tasks, Acknowledged(u)'
          PROVE  /\ call'[u].agg \in Ids
                 /\ Slot(u)' \in 1 .. Len(stored'[call'[u].agg])
                 /\ stored'[call'[u].agg][Slot(u)'] = Event(command'[u])
      <3>1. CASE u = t
        <4>1. call'[u].agg = agg /\ command'[u] = command[t] /\ Slot(u)' = Len(events) + 1
          BY <1>9, <2>1, <3>1
        <4>2. Len(events) + 1 \in 1 .. Len(stored'[agg])
          BY <1>1, <1>5
        <4> QED
          BY <1>1, <1>5, <4>1, <4>2
      <3>2. CASE u # t /\ call[u].agg = agg
        <4>1. Slot(u) \in 1 .. Len(events) /\ events[Slot(u)] = Event(command[u])
          BY <1>8, <2>1, <3>2
        <4>2. Slot(u) \in 1 .. Len(stored'[agg]) /\ stored'[agg][Slot(u)] = events[Slot(u)]
          BY <1>1, <1>5, <4>1
        <4> QED
          BY <1>1, <1>8, <2>1, <3>2, <4>1, <4>2
      <3>3. CASE u # t /\ call[u].agg # agg
        BY <1>4, <1>8, <2>1, <3>3
      <3> QED
        BY <3>1, <3>2, <3>3
    <2>2. ASSUME NEW u \in Tasks, u # t, Acknowledged(t)', Acknowledged(u)'
          PROVE  call'[t].agg # call'[u].agg \/ Slot(t)' # Slot(u)'
      <3>1. call'[t].agg = agg /\ Slot(t)' = Len(events) + 1
        BY <1>9, <2>2
      <3>2. call'[u].agg = call[u].agg /\ Slot(u)' = Slot(u) /\ Slot(u) \in 1 .. Len(stored[call[u].agg])
        BY <1>8, <2>2
      <3>3. call[u].agg = agg => Slot(u) # Len(events) + 1
        BY <1>1, <3>2
      <3> QED
        BY <3>1, <3>2, <3>3
    <2>3. ASSUME NEW u \in Tasks, NEW w \in Tasks, u # t, w # t, u # w, Acknowledged(u)', Acknowledged(w)'
          PROVE  call'[u].agg # call'[w].agg \/ Slot(u)' # Slot(w)'
      <3>1. Acknowledged(u) /\ call'[u] = call[u] /\ Slot(u)' = Slot(u)
        BY <1>8, <2>3
      <3>2. Acknowledged(w) /\ call'[w] = call[w] /\ Slot(w)' = Slot(w)
        BY <1>8, <2>3
      <3>3. call[u].agg # call[w].agg \/ Slot(u) # Slot(w)
        BY <2>3, <3>1, <3>2 DEF AnswersInv, AcknowledgedIsStored
      <3> QED
        BY <3>1, <3>2, <3>3
    <2> HIDE DEF agg, e, events
    <2>4. ASSUME NEW u \in Tasks, NEW w \in Tasks, Acknowledged(u)', Acknowledged(w)', u # w
          PROVE  call'[u].agg # call'[w].agg \/ Slot(u)' # Slot(w)'
      BY <2>2, <2>3, <2>4
    <2> QED
      BY <2>1, <2>4 DEF AcknowledgedIsStored
  <1>11. CreatedFirst'
    <2> SUFFICES ASSUME NEW i \in Ids, NEW n \in 1 .. Len(stored'[i])
                 PROVE  stored'[i][n].type = "AccountCreated" <=> n = 1
      BY DEF CreatedFirst
    <2>1. CASE i # agg
      BY <1>4, <2>1 DEF AnswersInv, CreatedFirst
    <2>2. CASE i = agg /\ n \in 1 .. Len(events)
      <3>1. n \in 1 .. Len(stored[i]) /\ stored'[i][n] = stored[i][n]
        BY <1>5, <2>2
      <3> QED
        BY <2>2, <3>1 DEF AnswersInv, CreatedFirst
    <2>3. CASE i = agg /\ n = Len(events) + 1
      <3>1. command[t].kind = "create" <=> Len(events) = 0
        BY <1>1, <1>3 DEF AnswersInv, CreatesAtZero
      <3> QED
        BY <1>1, <1>2, <1>5, <2>3, <3>1
    <2> QED
      BY <1>1, <1>5, <2>1, <2>2, <2>3
  <1>12. CreatesAtZero'
    <2> SUFFICES ASSUME NEW u \in Tasks, Store!Unanswered(u)'
                 PROVE  call'[u].expected \in Nat /\ (command'[u].kind = "create" <=> call'[u].expected = 0)
      BY DEF CreatesAtZero
    <2>1. u # t /\ stage'[u] # "idle"
      BY <1>6 DEF Store!Unanswered
    <2>2. Store!Unanswered(u) /\ call'[u] = call[u] /\ command'[u] = command[u]
      BY <1>6, <1>7, <2>1 DEF Store!Unanswered
    <2> QED
      BY <2>2 DEF AnswersInv, CreatesAtZero
  <1>13. ASSUME NEW i \in Ids
         PROVE  Len(stored[i]) =< Len(stored'[i]) /\ SubSeq(stored'[i], 1, Len(stored[i])) = stored[i]
    <2>1. SubSeq(stored[i], 1, Len(stored[i])) = stored[i] /\ Len(stored[i]) \in Nat
      BY <1>4
    <2>2. CASE i # agg
      BY <1>4, <2>1, <2>2
    <2>3. CASE i = agg
      <3>1. Len(events) \in 0 .. Len(events)
        BY <1>1
      <3>2. SubSeq(Append(events, e), 1, Len(events)) = SubSeq(events, 1, Len(events))
        BY <1>1, <1>2, <3>1, PrefixStays
      <3>3. /\ stored[i] = events /\ stored'[i] = Append(events, e)
            /\ Len(stored'[i]) = Len(events) + 1
        BY <1>4, <1>5, <2>3
      <3>4. SubSeq(events, 1, Len(events)) = events
        BY <2>1, <3>3
      <3>5. Len(events) =< Len(events) + 1
        BY <1>1
      <3> HIDE DEF events, e
      <3> QED
        BY <3>2, <3>3, <3>4, <3>5
    <2> QED
      BY <2>2, <2>3
  <1> QED
    BY <1>10, <1>11, <1>12, <1>13 DEF AnswersInv

LEMMA InitAnswers == Init => AnswersInv
  <1> SUFFICES ASSUME Init PROVE AnswersInv
    OBVIOUS
  <1>1. \A t \in Tasks : stage[t] = "idle"
    BY DEF Init, Store!LogInit
  <1>2. CreatedFirst
    BY InitialEventsSerial DEF Init, CreatedFirst, Serial
  <1> QED
    BY <1>1, <1>2 DEF AnswersInv, AcknowledgedIsStored, CreatesAtZero, Acknowledged, Store!Unanswered

(* No step changes or removes an event that is stored, a restart included. *)
Grown ==
    \A i \in Ids : /\ Len(stored[i]) =< Len(stored'[i])
                   /\ SubSeq(stored'[i], 1, Len(stored[i])) = stored[i]

LEMMA StepAnswers ==
    ASSUME Inv, AnswersInv, [Next]_vars
    PROVE  AnswersInv' /\ Grown
  <1>1. ASSUME AnswersInv', UNCHANGED stored PROVE AnswersInv' /\ Grown
    <2>1. ASSUME NEW i \in Ids
          PROVE  Len(stored[i]) =< Len(stored[i]) /\ SubSeq(stored[i], 1, Len(stored[i])) = stored[i]
      <3>1. stored[i] \in Seq(Events)
        BY DEF Inv, TypeInv
      <3> QED
        BY <3>1
    <2> QED
      BY <1>1, <2>1 DEF Grown
  <1>2. ASSUME CallsStay, UNCHANGED stored PROVE AnswersInv' /\ Grown
    BY <1>1, <1>2, AnswersStay
  <1>3. CASE UNCHANGED vars
    <2>1. UNCHANGED <<stored, callVars>> /\ UNCHANGED command
      BY <1>3 DEF vars
    <2> QED
      BY <1>2, <2>1, NoCallStay DEF Inv
  <1>4. CASE Next
    <2>1. ASSUME NEW t \in Tasks, StoreAccepts(t) PROVE AnswersInv' /\ Grown
      BY <2>1, AcceptsAnswers DEF Grown
    <2>2. ASSUME NEW t \in Tasks, CommandReturns(t) \/ Disconnect(t) PROVE AnswersInv' /\ Grown
      BY <1>2, <2>2, ReturnsStay DEF Inv
    <2>3. ASSUME Restart PROVE AnswersInv' /\ Grown
      BY <1>2, <2>3, RestartStay
    <2>4. ASSUME NEW S \in SUBSET Tasks, StoreRefuses(S) PROVE AnswersInv' /\ Grown
      BY <1>2, <2>4, RefusesStay
    <2>5. ASSUME NEW t \in Handlers, HandlerStep(t) PROVE AnswersInv' /\ Grown
      BY <1>1, <2>5, HandlerAnswers
    <2>6. ASSUME NEW t \in Services, ServiceStep(t) PROVE AnswersInv' /\ Grown
      BY <1>1, <2>6, ServiceAnswers
    <2> QED
      BY <1>4, <2>1, <2>2, <2>3, <2>4, <2>5, <2>6 DEF Next, Step, Abort, Crash
  <1> QED
    BY <1>3, <1>4

LEMMA AnswersHold == Spec => []AnswersInv
  <1>1. Inv /\ AnswersInv /\ [Next]_vars => AnswersInv'
    BY StepAnswers
  <1> QED
    BY InitAnswers, InvHolds, <1>1, PTL DEF Spec

(* In every deployment, also one of handlers and services together: a      *)
(* command that save_events answers with Ok finds its event in the         *)
(* history, in a place of its own.                                         *)
THEOREM NoUpdateIsLost == Spec => []AcknowledgedIsStored
  <1>1. AnswersInv => AcknowledgedIsStored
    BY DEF AnswersInv
  <1> QED
    BY AnswersHold, <1>1, PTL

(* In every deployment, an account is created once, by the first event of  *)
(* its history: creating expects version 0, and whatever else is saved was *)
(* decided on an account that exists.                                      *)
THEOREM AccountsAreCreatedOnce == Spec => []CreatedFirst
  <1>1. AnswersInv => CreatedFirst
    BY DEF AnswersInv
  <1> QED
    BY AnswersHold, <1>1, PTL

(* What is stored stays stored, at its version, whatever commands and      *)
(* crashes follow.                                                         *)
THEOREM HistoriesOnlyGrow == Spec => [][Grown]_vars
  <1>1. Inv /\ AnswersInv /\ [Next]_vars => [Grown]_vars
    BY StepAnswers
  <1> QED
    BY InvHolds, AnswersHold, <1>1, PTL DEF Spec

-----------------------------------------------------------------------------
(* Deployments of one kind.                                                *)
OfOneKind == running \subseteq Handlers \/ running \subseteq Services

(* The account get_by_id makes of a history.                               *)
AccountsAreCovered ==
    OfOneKind => \A i \in Ids : /\ Replay(stored[i]).balance >= 0
                                /\ Replay(stored[i]).version = Len(stored[i])

LEMMA WholeHistory ==
    ASSUME NEW s \in Seq(Events), s # <<>>
    PROVE  SubSeq(s, 1, Len(s)) = s /\ Len(s) \in 1 .. Len(s)
  OBVIOUS

LEMMA EmptyAccount == Replay(<<>>).balance = 0
  <1>1. Len(<<>>) = 0
    OBVIOUS
  <1>2. PICK f : Replays(f, <<>>, 0) /\ Replay(<<>>) = f[0]
    BY <1>1, ReplayUnfolds
  <1>3. f[0] = Default
    BY <1>2 DEF Replays
  <1> QED
    BY <1>2, <1>3 DEF Default

(* Withdrawals decided on stale accounts overdraw none: whatever commands  *)
(* interleave and wherever a process ends, the account that get_by_id      *)
(* builds from a stored history has a balance of at least zero and the     *)
(* version of its last event.                                              *)
THEOREM NoAccountIsOverdrawn == Spec => []AccountsAreCovered
  <1>1. Inv => AccountsAreCovered
    <2> SUFFICES ASSUME Inv, OfOneKind, NEW i \in Ids
                 PROVE  /\ Replay(stored[i]).balance >= 0
                        /\ Replay(stored[i]).version = Len(stored[i])
      BY DEF AccountsAreCovered
    <2>1. stored[i] \in Seq(Events) /\ Serial(stored[i])
      BY DEF Inv, TypeInv, HistoriesAreSerial, OfOneKind
    <2>2. Replay(stored[i]).version = Len(stored[i])
      BY <2>1, ReplayType DEF IsAccount
    <2>3. CASE stored[i] = <<>>
      BY <2>2, <2>3, EmptyAccount
    <2>4. CASE stored[i] # <<>>
      <3>1. SubSeq(stored[i], 1, Len(stored[i])) = stored[i] /\ Len(stored[i]) \in 1 .. Len(stored[i])
        BY <2>1, <2>4, WholeHistory
      <3>2. Replay(SubSeq(stored[i], 1, Len(stored[i]))).balance >= 0
        BY <2>1, <3>1 DEF Serial
      <3> QED
        BY <2>2, <3>1, <3>2, ZenonT(30)
    <2> QED
      BY <2>3, <2>4
  <1> QED
    BY InvHolds, <1>1, PTL

(* An account that exists and is not active gets no further event.         *)
ClosedForGood ==
    OfOneKind => \A i \in Ids :
        stored[i] # <<>> /\ ~Replay(stored[i]).is_active => stored'[i] = stored[i]

(* A command that was decided while the account was open is refused once   *)
(* the closing is stored: nothing is ever added to a closed account.       *)
THEOREM ClosedAccountsStay == Spec => [][ClosedForGood]_vars
  <1>1. Inv /\ Inv' /\ AnswersInv /\ [Next]_vars => [ClosedForGood]_vars
    <2> SUFFICES ASSUME Inv, Inv', Next, Grown, OfOneKind, NEW i \in Ids,
                        stored[i] # <<>>, stored'[i] # stored[i]
                 PROVE  Replay(stored[i]).is_active
      BY StepAnswers DEF ClosedForGood
    <2>1. /\ stored[i] \in Seq(Events) /\ stored'[i] \in Seq(Events)
          /\ Serial(stored'[i])
      BY DEF Inv, TypeInv, HistoriesAreSerial, OfOneKind, Next
    <2>2. Len(stored[i]) =< Len(stored'[i]) /\ SubSeq(stored'[i], 1, Len(stored[i])) = stored[i]
      BY DEF Grown
    <2>3. Len(stored[i]) # Len(stored'[i])
      <3>1. Len(stored[i]) = Len(stored'[i]) => SubSeq(stored'[i], 1, Len(stored[i])) = stored'[i]
        BY <2>1
      <3> QED
        BY <2>2, <3>1
    <2> DEFINE n == Len(stored[i]) + 1
    <2>4. n \in 1 .. Len(stored'[i]) /\ n > 1 /\ n - 1 = Len(stored[i])
      BY <2>1, <2>2, <2>3
    <2>5. Replay(SubSeq(stored'[i], 1, n - 1)).is_active
      BY <2>1, <2>4 DEF Serial
    <2> QED
      BY <2>2, <2>4, <2>5, ZenonT(30)
  <1> QED
    BY InvHolds, AnswersHold, <1>1, PTL DEF Spec
=============================================================================
