------------------------ MODULE EventPipelineProofs ------------------------
(***************************************************************************)
(* Proofs about EventPipeline, for any accounts and histories, any number  *)
(* of recoveries and replays, with and without failing calls.              *)
(***************************************************************************)
EXTENDS EventPipeline, SequenceTheorems, TLAPS

(***************************************************************************)
(* Sequences and messages                                                  *)
(***************************************************************************)
LEMMA HeadTailType ==
    ASSUME NEW S, NEW s \in Seq(S), s # <<>>
    PROVE  Head(s) \in S /\ Tail(s) \in Seq(S)
  BY HeadTailProperties

LEMMA AppendType ==
    ASSUME NEW S, NEW s \in Seq(S), NEW e \in S
    PROVE  Append(s, e) \in Seq(S)
  BY AppendProperties

LEMMA ConcatType ==
    ASSUME NEW S, NEW s \in Seq(S), NEW t \in Seq(S)
    PROVE  s \o t \in Seq(S)
  BY ConcatProperties

LEMMA SeqType ==
    ASSUME NEW S, NEW n \in Nat, NEW s \in [1 .. n -> S]
    PROVE  s \in Seq(S)
  BY SeqDef

LEMMA SingletonType ==
    ASSUME NEW S, NEW e \in S
    PROVE  <<e>> \in Seq(S)
  OBVIOUS

LEMMA NoBatchType == NoBatch \in Messages
  BY EmptySeq DEF NoBatch, Messages

Letters == [message : Messages, retry_count : Nat]

LEMMA LetterType ==
    ASSUME NEW b \in Messages
    PROVE  Letter(b) \in Letters
  BY DEF Letter, Letters

LEMMA HistoryType ==
    ASSUME TypeOK, NEW a \in Accounts
    PROVE  /\ stored[a] \in Seq(Nat)
           /\ Len(stored[a]) \in Nat
           /\ \A v \in 1 .. Len(stored[a]) : stored[a][v] \in Nat
  <1>1. stored[a] \in Seq(Nat)
    BY DEF TypeOK
  <1> QED
    BY <1>1, LenProperties, ElementOfSeq

LEMMA SinglesType ==
    ASSUME TypeOK, NEW a \in Accounts
    PROVE  Singles(a) \in Seq(Messages)
  <1> DEFINE n == Len(stored[a])
             m(v) == Batch(a, <<stored[a][v]>>, v)
  <1>1. ASSUME NEW v \in 1 .. n PROVE m(v) \in Messages
    <2>1. stored[a][v] \in Nat /\ v \in Nat
      BY HistoryType
    <2>2. <<stored[a][v]>> \in Seq(Nat)
      BY <2>1
    <2> QED
      BY <2>1, <2>2 DEF Batch, Messages
  <1>2. n \in Nat /\ Singles(a) = [v \in 1 .. n |-> m(v)]
    BY HistoryType DEF Singles
  <1> HIDE DEF n, m
  <1>3. [v \in 1 .. n |-> m(v)] \in [1 .. n -> Messages]
    BY <1>1
  <1> QED
    BY <1>2, <1>3, SeqType

LEMMA WholeType ==
    ASSUME TypeOK, NEW a \in Accounts
    PROVE  Whole(a) \in Seq(Messages)
  <1> DEFINE m == Batch(a, stored[a], Len(stored[a]))
  <1>1. m \in Messages
    BY HistoryType DEF Batch, Messages
  <1>2. Whole(a) = <<>> \/ Whole(a) = <<m>>
    BY DEF Whole
  <1> HIDE DEF m
  <1> QED
    BY <1>1, <1>2, SingletonType, EmptySeq, ZenonT(30)

(***************************************************************************)
(* The inductive invariant                                                 *)
(***************************************************************************)
Steps == {"idle", "accounts", "next", "verifying", "failed", "reading",
          "sending", "cache", "scanning", "dlq"}

(* TypeOK in three parts: the topics, the loop and the workers.            *)
TopicType ==
    /\ stored \in [Accounts -> Seq(Nat)]
    /\ events \in Seq(Messages)
    /\ dlq \in Seq(Letters)
    /\ dlq_task \in {"off", "polling", "ended"}
    /\ is_recovering \in BOOLEAN /\ accounts_in_recovery \subseteq Accounts

LoopType ==
    /\ lpc \in {"off", "polling", "saving", "caching", "dead", "recovering", "stopped"}
    /\ batch \in Messages
    /\ polled \in Nat /\ done \in Nat /\ dead \in Nat

WorkType ==
    /\ wpc \in [Workers -> Steps]
    /\ strategy \in [Workers -> Strategies \cup {"Recovery"}]
    /\ todo \in [Workers -> SUBSET Accounts]
    /\ current \in [Workers -> Accounts \cup {Nobody}]
    /\ read \in [Workers -> Nat]
    /\ sending \in [Workers -> Seq(Messages)]
    /\ starts \in 0 .. MaxStarts /\ selective \in 0 .. starts

LEMMA TypeParts == TypeOK <=> TopicType /\ LoopType /\ WorkType
  BY ZenonT(30) DEF TypeOK, TopicType, LoopType, WorkType, Steps, Letters

(* Recoveries and replays each take their own steps; a recovery at work    *)
(* has the flag set and is the only one; the loop does not poll while it   *)
(* runs its own recovery.                                                  *)
Control ==
    /\ \A w \in Recoveries : wpc[w] \notin {"scanning", "dlq"}
    /\ \A w \in Strategists : wpc[w] \in {"idle", "next", "sending", "scanning", "dlq"}
    /\ \A w \in Recoveries : wpc[w] # "idle" => is_recovering
    /\ wpc[Loop] # "idle" => lpc = "recovering"

Inv == TypeOK /\ Control /\ OneRecovery /\ NothingDropped

LEMMA InitInv == Init => Inv
  <1> SUFFICES ASSUME Init PROVE Inv
    OBVIOUS
  <1>1. stored \in [Accounts -> Seq(Nat)]
    <2>1. ASSUME NEW a \in Accounts PROVE [v \in 1 .. InitialEvents[a] |-> v] \in Seq(Nat)
      <3>1. InitialEvents[a] \in Nat
        BY EventPipelineAssumption
      <3>2. [v \in 1 .. InitialEvents[a] |-> v] \in [1 .. InitialEvents[a] -> Nat]
        OBVIOUS
      <3> QED
        BY <3>1, <3>2, SeqType
    <2> QED
      BY <2>1 DEF Init
  <1>2. TopicType
    BY <1>1, EmptySeq, ZenonT(30) DEF Init, TopicType
  <1>3. LoopType
    BY NoBatchType DEF Init, LoopType
  <1>4. WorkType
    BY EmptySeq, EventPipelineAssumption DEF Init, WorkType, Steps
  <1>5. Control /\ OneRecovery /\ NothingDropped
    BY DEF Init, Control, OneRecovery, NothingDropped, Workers, Recoveries
  <1> QED
    BY <1>2, <1>3, <1>4, <1>5, TypeParts DEF Inv

(***************************************************************************)
(* The processing loop and the dead letter task                            *)
(***************************************************************************)
(* The loop leaves recoveries and replays alone.  What it changes are the  *)
(* topics, the histories and its own counters.                             *)
LEMMA LoopFrame ==
    ASSUME Inv, TopicType', LoopType', NothingDropped', UNCHANGED <<recoveryState, workVars>>,
           lpc # "recovering" \/ UNCHANGED lpc
    PROVE  Inv'
  <1>1. WorkType'
    BY TypeParts DEF Inv, WorkType, workVars
  <1>2. Control' /\ OneRecovery'
    BY DEF Inv, Control, OneRecovery, recoveryState, workVars
  <1>3. TypeOK'
    BY <1>1, TypeParts DEF TypeOK, TopicType, LoopType, WorkType, Letters, Steps
  <1> QED
    BY <1>2, <1>3 DEF Inv

LEMMA ProcessingInv ==
    ASSUME Inv, Processing
    PROVE  Inv'
  <1> USE TypeParts
  <1>1. CASE StartProcessing
    BY <1>1, LoopFrame DEF StartProcessing, Inv, TopicType, LoopType, NothingDropped, recoveryState
  <1>2. CASE PollEvents
    <2>1. Head(events) \in Messages /\ Tail(events) \in Seq(Messages)
      BY <1>2, HeadTailType DEF PollEvents, Inv, TopicType
    <2>2. TopicType' /\ LoopType'
      BY <1>2, <2>1 DEF PollEvents, Inv, TopicType, LoopType, recoveryState
    <2>3. NothingDropped'
      BY <1>2 DEF PollEvents, Inv, LoopType, NothingDropped
    <2> QED
      BY <1>2, <2>2, <2>3, LoopFrame DEF PollEvents
  <1>3. CASE SaveEvents
    <2>1. stored' \in [Accounts -> Seq(Nat)]
      <3>1. batch.events \in Seq(Nat)
        BY DEF Inv, LoopType, Messages
      <3>2. ASSUME NEW a \in Accounts PROVE stored[a] \o batch.events \in Seq(Nat)
        BY <3>1, ConcatType DEF Inv, TopicType
      <3> QED
        BY <1>3, <3>2, ZenonT(60) DEF SaveEvents, Inv, TopicType
    <2>2. TopicType' /\ LoopType'
      BY <1>3, <2>1, ZenonT(30) DEF SaveEvents, Inv, TopicType, LoopType, recoveryState
    <2>3. NothingDropped'
      BY <1>3, ZenonT(30) DEF SaveEvents, Inv, LoopType, NothingDropped
    <2> QED
      BY <1>3, <2>2, <2>3, LoopFrame DEF SaveEvents
  <1>4. CASE UpdateCaches
    <2>1. TopicType' /\ LoopType'
      BY <1>4, NoBatchType DEF UpdateCaches, Inv, TopicType, LoopType, recoveryState
    <2>2. NothingDropped'
      BY <1>4 DEF UpdateCaches, Inv, LoopType, NothingDropped
    <2> QED
      BY <1>4, <2>1, <2>2, LoopFrame DEF UpdateCaches
  <1>5. CASE SendToDlq
    <2>1. Append(dlq, Letter(batch)) \in Seq(Letters)
      BY LetterType, AppendType DEF Inv, TopicType, LoopType
    <2>2. TopicType'
      BY <1>5, <2>1, SMTT(30) DEF SendToDlq, Inv, TopicType, recoveryState
    <2>3. LoopType'
      BY <1>5, NoBatchType DEF SendToDlq, Inv, LoopType
    <2>4. NothingDropped'
      BY <1>5 DEF SendToDlq, Inv, LoopType, NothingDropped
    <2> QED
      BY <1>5, <2>2, <2>3, <2>4, LoopFrame DEF SendToDlq
  <1>6. CASE ProcessDlq
    <2>1. events' \in Seq(Messages)
      BY <1>6, HeadTailType, ZenonT(30) DEF ProcessDlq, Inv, TopicType
    <2>2. TopicType' /\ LoopType' /\ NothingDropped' /\ UNCHANGED lpc
      BY <1>6, <2>1
         DEF ProcessDlq, Inv, TopicType, LoopType, NothingDropped, recoveryState, loopVars
    <2> QED
      BY <1>6, <2>2, LoopFrame DEF ProcessDlq
  <1> QED
    BY <1>1, <1>2, <1>3, <1>4, <1>5, <1>6 DEF Processing

(***************************************************************************)
(* Recoveries and replays                                                  *)
(***************************************************************************)
(* A worker that ends: if it is a recovery, no other one was at work.      *)
LEMMA FinishInv ==
    ASSUME Inv, NEW w \in Workers, wpc[w] # "idle", Finish(w), TopicType',
           \/ w \in Recoveries
           \/ UNCHANGED <<is_recovering, accounts_in_recovery>>
    PROVE  Inv'
  <1>1. WorkType /\ LoopType
    BY TypeParts DEF Inv
  <1>2. WorkType' /\ LoopType'
    BY <1>1, EmptySeq DEF Finish, WorkType, LoopType, Steps
  <1>3. /\ wpc' = [wpc EXCEPT ![w] = "idle"]
        /\ current' = [current EXCEPT ![w] = Nobody]
        /\ lpc' = IF w = Loop THEN "polling" ELSE lpc
        /\ UNCHANGED <<polled, done, dead>>
    BY DEF Finish
  <1>4. /\ \A v \in Workers : wpc'[v] = IF v = w THEN "idle" ELSE wpc[v]
        /\ \A v \in Workers : v # w => current'[v] = current[v]
        /\ Recoveries \subseteq Workers /\ Strategists \subseteq Workers /\ Loop \in Recoveries
    BY <1>1, <1>3 DEF WorkType, Workers, Recoveries
  <1>5. Control'
    BY <1>3, <1>4 DEF Inv, Control, OneRecovery
  <1>6. OneRecovery'
    BY <1>4 DEF Inv, OneRecovery
  <1>7. NothingDropped'
    BY <1>3 DEF Inv, Control, NothingDropped
  <1> QED
    BY <1>2, <1>5, <1>6, <1>7, TypeParts, ZenonT(30)
       DEF Inv, TypeOK, TopicType, LoopType, WorkType, Letters, Steps

(* A worker that goes on, under what its step requires.                    *)
LEMMA GotoInv ==
    ASSUME Inv, NEW w \in Workers, NEW step \in Steps, Goto(w, step),
           wpc[w] # "idle", step # "idle",
           w \in Recoveries => step \notin {"scanning", "dlq"},
           w \in Strategists => step \in {"next", "sending", "scanning", "dlq"},
           w \in Recoveries /\ step \in {"verifying", "reading", "sending", "cache"} =>
               current'[w] \in accounts_in_recovery',
           UNCHANGED is_recovering, TopicType',
           \A v \in Workers : v # w => current'[v] = current[v],
           w \in Recoveries \/ UNCHANGED accounts_in_recovery,
           strategy' \in [Workers -> Strategies \cup {"Recovery"}],
           todo' \in [Workers -> SUBSET Accounts],
           current' \in [Workers -> Accounts \cup {Nobody}],
           read' \in [Workers -> Nat],
           sending' \in [Workers -> Seq(Messages)]
    PROVE  Inv'
  <1>1. WorkType /\ LoopType
    BY TypeParts DEF Inv
  <1>2. /\ wpc' = [wpc EXCEPT ![w] = step]
        /\ UNCHANGED <<lpc, batch, polled, done, dead, starts, selective>>
    BY DEF Goto, loopVars
  <1>3. WorkType' /\ LoopType'
    BY <1>1, <1>2 DEF WorkType, LoopType
  <1>4. /\ \A v \in Workers : wpc'[v] = IF v = w THEN step ELSE wpc[v]
        /\ Recoveries \subseteq Workers /\ Strategists \subseteq Workers /\ Loop \in Recoveries
    BY <1>1, <1>2 DEF WorkType, Workers, Recoveries
  <1>5. Control'
    BY <1>2, <1>4 DEF Inv, Control
  <1>6. OneRecovery'
    BY <1>4, ZenonT(30) DEF Inv, OneRecovery
  <1>7. NothingDropped'
    BY <1>2 DEF Inv, NothingDropped
  <1> QED
    BY <1>3, <1>5, <1>6, <1>7, TypeParts, ZenonT(30)
       DEF Inv, TypeOK, TopicType, LoopType, WorkType, Letters, Steps

(* Which steps belong to a recovery, and what its account is.              *)
LEMMA RecoverySteps ==
    ASSUME Inv, NEW w \in Workers
    PROVE  /\ wpc[w] \in {"accounts", "verifying", "failed", "reading", "cache"} =>
                  w \in Recoveries /\ w \notin Strategists
           /\ wpc[w] \in {"scanning", "dlq"} => w \in Strategists /\ w \notin Recoveries
           /\ w \in Strategists <=> w \notin Recoveries
           /\ wpc[w] \in {"verifying", "reading", "cache"} =>
                  current[w] \in accounts_in_recovery /\ current[w] \in Accounts
           /\ TopicType /\ LoopType /\ WorkType
  <1>1. w \in Strategists <=> w \notin Recoveries
    BY EventPipelineAssumption DEF Workers, Recoveries
  <1>2. TopicType /\ LoopType /\ WorkType
    BY TypeParts DEF Inv
  <1> QED
    BY <1>1, <1>2 DEF Inv, Control, OneRecovery, TopicType

LEMMA StartRecoveryInv ==
    ASSUME Inv, NEW w \in Recoveries, StartRecovery(w)
    PROVE  Inv'
  <1>1. WorkType /\ LoopType /\ TopicType /\ w \in Workers
    BY TypeParts DEF Inv, Workers
  <1>2. /\ \A v \in Workers : wpc'[v] = IF v = w THEN "accounts" ELSE wpc[v]
        /\ Recoveries \subseteq Workers /\ Strategists \subseteq Workers /\ Loop \in Recoveries
        /\ w \notin Strategists
    BY <1>1, EventPipelineAssumption DEF WorkType, Workers, Recoveries, StartRecovery
  <1>3. WorkType'
    BY <1>1, EventPipelineAssumption DEF StartRecovery, WorkType, Steps
  <1>4. LoopType'
    BY <1>1 DEF StartRecovery, LoopType
  <1>5. TopicType'
    BY <1>1 DEF StartRecovery, TopicType
  <1>6. Control'
    BY <1>2 DEF StartRecovery, Inv, Control
  <1>7. OneRecovery'
    BY <1>2 DEF StartRecovery, Inv, Control, OneRecovery
  <1>8. NothingDropped'
    BY DEF StartRecovery, Inv, NothingDropped
  <1> QED
    BY <1>3, <1>4, <1>5, <1>6, <1>7, <1>8, TypeParts, ZenonT(30)
       DEF Inv, TypeOK, TopicType, LoopType, WorkType, Letters, Steps

LEMMA ExecuteRecoveryInv ==
    ASSUME Inv, NEW w \in Strategists, ExecuteRecovery(w)
    PROVE  Inv'
  <1>1. WorkType /\ LoopType /\ TopicType /\ w \in Workers
    BY TypeParts DEF Inv, Workers
  <1>2. /\ \A v \in Workers : v # w => wpc'[v] = wpc[v]
        /\ wpc'[w] \in {"dlq", "next"}
        /\ Recoveries \subseteq Workers /\ Strategists \subseteq Workers /\ Loop \in Recoveries
        /\ w \notin Recoveries
    BY <1>1, EventPipelineAssumption DEF WorkType, Workers, Recoveries, ExecuteRecovery
  <1>3. starts' \in 0 .. MaxStarts /\ selective' \in 0 .. starts'
    BY <1>1, EventPipelineAssumption DEF ExecuteRecovery, WorkType
  <1>4. wpc' \in [Workers -> Steps] /\ strategy' \in [Workers -> Strategies \cup {"Recovery"}]
    BY <1>1 DEF ExecuteRecovery, WorkType, Steps
  <1>5. todo' \in [Workers -> SUBSET Accounts]
    BY <1>1 DEF ExecuteRecovery, WorkType
  <1>6. WorkType' /\ LoopType' /\ TopicType'
    BY <1>1, <1>3, <1>4, <1>5, SMTT(30)
       DEF ExecuteRecovery, WorkType, LoopType, TopicType, loopVars, recoveryState
  <1>7. Control'
    BY <1>2 DEF ExecuteRecovery, Inv, Control, loopVars, recoveryState
  <1>8. OneRecovery' /\ NothingDropped'
    BY <1>2 DEF ExecuteRecovery, Inv, OneRecovery, NothingDropped, loopVars, recoveryState
  <1> QED
    BY <1>6, <1>7, <1>8, TypeParts, ZenonT(30)
       DEF Inv, TypeOK, TopicType, LoopType, WorkType, Letters, Steps

(* Steps that only take from, or add to, the topics.                       *)
LEMMA SendFrame ==
    ASSUME Inv, TopicType', sending' \in [Workers -> Seq(Messages)],
           UNCHANGED <<recoveryState, loopVars, wpc, starts, selective, strategy, todo, current,
                       read>>
    PROVE  Inv'
  <1>1. WorkType' /\ LoopType'
    BY TypeParts DEF Inv, WorkType, LoopType, loopVars
  <1>2. Control' /\ OneRecovery' /\ NothingDropped'
    BY DEF Inv, Control, OneRecovery, NothingDropped, recoveryState, loopVars
  <1> QED
    BY <1>1, <1>2, TypeParts, SMTT(30) DEF Inv, TypeOK, TopicType, LoopType, WorkType, Letters, Steps

LEMMA RecoveryInv ==
    ASSUME Inv, NEW w \in Workers, Recovery(w)
    PROVE  Inv'
  <1> USE RecoverySteps
  <1>0. TopicType /\ WorkType
    OBVIOUS
  <1>1. CASE GetAllAccounts(w)
    <2>1. TopicType'
      BY <1>0, <1>1 DEF GetAllAccounts, TopicType, recoveryState
    <2>2. CASE Goto(w, "next") /\ todo' = [todo EXCEPT ![w] = Accounts]
                 /\ UNCHANGED <<strategy, current, read, sending>>
      <3>1. todo' \in [Workers -> SUBSET Accounts]
        BY <1>0, <2>2 DEF WorkType
      <3> QED
        BY <1>0, <1>1, <2>1, <2>2, <3>1, GotoInv, ZenonT(30)
           DEF GetAllAccounts, WorkType, Steps, recoveryState
    <2>3. CASE Finish(w)
      BY <1>1, <2>1, <2>3, FinishInv DEF GetAllAccounts, recoveryState
    <2> QED
      BY <1>1, <2>2, <2>3 DEF GetAllAccounts
  <1>2. CASE NextAccount(w)
    <2>1. PICK a \in todo[w] :
            /\ accounts_in_recovery' = accounts_in_recovery \cup {a}
            /\ \/ /\ todo' = [todo EXCEPT ![w] = @ \ {a}]
                  /\ current' = [current EXCEPT ![w] = a]
                  /\ read' = [read EXCEPT ![w] = Len(stored[a])]
                  /\ Goto(w, "verifying")
                  /\ UNCHANGED <<strategy, sending>>
               \/ Faults /\ Finish(w)
      BY <1>2 DEF NextAccount
    <2>2. a \in Accounts
      BY <1>0, <2>1 DEF WorkType
    <2>3. TopicType'
      BY <1>0, <1>2, <2>1, <2>2 DEF NextAccount, TopicType
    <2>4. CASE Goto(w, "verifying") /\ todo' = [todo EXCEPT ![w] = @ \ {a}]
               /\ current' = [current EXCEPT ![w] = a]
               /\ read' = [read EXCEPT ![w] = Len(stored[a])]
               /\ UNCHANGED <<strategy, sending>>
      <3>1. Len(stored[a]) \in Nat
        BY <2>2, HistoryType DEF Inv
      <3>2. /\ todo' \in [Workers -> SUBSET Accounts]
            /\ current' \in [Workers -> Accounts \cup {Nobody}]
            /\ read' \in [Workers -> Nat]
        BY <1>0, <2>2, <2>4, <3>1 DEF WorkType
      <3>3. /\ current'[w] = a /\ \A v \in Workers : v # w => current'[v] = current[v]
            /\ w \in Recoveries /\ wpc[w] = "next" /\ UNCHANGED is_recovering
        BY <1>0, <1>2, <2>4 DEF WorkType, NextAccount
      <3>4. strategy' \in [Workers -> Strategies \cup {"Recovery"}]
            /\ sending' \in [Workers -> Seq(Messages)]
        BY <1>0, <2>4 DEF WorkType
      <3>5. "verifying" \in Steps
        BY DEF Steps
      <3> QED
        BY <2>1, <2>3, <2>4, <3>2, <3>3, <3>4, <3>5, GotoInv, ZenonT(30)
    <2>5. CASE Finish(w)
      BY <1>2, <2>3, <2>5, FinishInv DEF NextAccount
    <2> QED
      BY <2>1, <2>4, <2>5
  <1>3. CASE VerifyAccountEvents(w)
    <2>1. TopicType'
      BY <1>0, <1>3 DEF VerifyAccountEvents, TopicType, recoveryState
    <2> QED
      BY <1>0, <1>3, <2>1, GotoInv, ZenonT(30)
         DEF VerifyAccountEvents, WorkType, Steps, recoveryState
  <1>4. CASE HandleFailure(w)
    <2>1. Append(dlq, Letter(Batch(current[w], <<>>, read[w]))) \in Seq(Letters)
      <3>1. Batch(current[w], <<>>, read[w]) \in Messages
        BY <1>0, EmptySeq DEF Batch, Messages, WorkType
      <3> QED
        BY <1>0, <3>1, LetterType, AppendType DEF TopicType
    <2>2. TopicType'
      BY <1>0, <1>4, <2>1, ZenonT(30) DEF HandleFailure, TopicType, recoveryState
    <2>3. CASE Goto(w, "next") /\ UNCHANGED <<strategy, todo, current, read, sending>>
      BY <1>0, <1>4, <2>2, <2>3, GotoInv, ZenonT(30)
         DEF HandleFailure, WorkType, Steps, recoveryState
    <2>4. CASE Finish(w)
      BY <1>4, <2>2, <2>4, FinishInv DEF HandleFailure, recoveryState
    <2> QED
      BY <1>4, <2>3, <2>4 DEF HandleFailure
  <1>5. CASE ReplayAccountEvents(w)
    <2>1. TopicType'
      BY <1>0, <1>5 DEF ReplayAccountEvents, TopicType, recoveryState
    <2>2. current[w] \in Accounts
      BY <1>5 DEF ReplayAccountEvents
    <2>3. Singles(current[w]) \in Seq(Messages)
      BY <2>2, SinglesType DEF Inv
    <2>4. sending' \in [Workers -> Seq(Messages)]
      BY <1>0, <1>5, <2>3, ZenonT(30) DEF ReplayAccountEvents, WorkType
    <2> QED
      BY <1>0, <1>5, <2>1, <2>4, GotoInv, ZenonT(30)
         DEF ReplayAccountEvents, WorkType, Steps, recoveryState
  <1>6. CASE UpdateAccountCache(w)
    <2>1. TopicType'
      BY <1>0, <1>6 DEF UpdateAccountCache, TopicType
    <2>2. CASE Goto(w, "next") /\ UNCHANGED <<strategy, todo, current, read, sending>>
      BY <1>0, <1>6, <2>1, <2>2, GotoInv, ZenonT(30) DEF UpdateAccountCache, WorkType, Steps
    <2>3. CASE Finish(w)
      BY <1>6, <2>1, <2>3, FinishInv DEF UpdateAccountCache
    <2> QED
      BY <1>6, <2>2, <2>3 DEF UpdateAccountCache
  <1>7. CASE RecoveryEnds(w)
    <2>1. TopicType'
      BY <1>0, <1>7 DEF RecoveryEnds, TopicType
    <2> QED
      BY <1>7, <2>1, FinishInv DEF RecoveryEnds
  <1> QED
    BY <1>1, <1>2, <1>3, <1>4, <1>5, <1>6, <1>7 DEF Recovery

LEMMA ReplayInv ==
    ASSUME Inv, NEW w \in Workers, Replay(w)
    PROVE  Inv'
  <1> USE RecoverySteps
  <1>0. TopicType /\ WorkType
    OBVIOUS
  <1>1. CASE ReplayAccount(w)
    <2>1. TopicType'
      BY <1>0, <1>1 DEF ReplayAccount, TopicType, recoveryState
    <2> DEFINE step == IF strategy[w] = "IncrementalReplay" THEN "scanning" ELSE "sending"
               batches(a) == CASE strategy[w] = "FullReplay" -> Singles(a)
                               [] strategy[w] = "SelectiveReplay" -> Whole(a)
                               [] OTHER -> <<>>
    <2>2. ASSUME NEW a \in todo[w], todo' = [todo EXCEPT ![w] = @ \ {a}],
                 sending' = [sending EXCEPT ![w] = batches(a)],
                 Goto(w, step), UNCHANGED <<strategy, current, read>>
          PROVE  Inv'
      <3>1. a \in Accounts /\ todo' \in [Workers -> SUBSET Accounts]
        BY <1>0, <2>2 DEF WorkType
      <3>2. batches(a) \in Seq(Messages)
        BY <3>1, SinglesType, WholeType, EmptySeq DEF Inv
      <3>3. step \in {"scanning", "sending"} /\ {"scanning", "sending"} \subseteq Steps
        BY DEF Steps
      <3> HIDE DEF step, batches
      <3>4. sending' \in [Workers -> Seq(Messages)]
        BY <1>0, <2>2, <3>2 DEF WorkType
      <3>5. step \in Steps /\ step # "idle"
        BY <3>3
      <3>6. /\ wpc[w] # "idle" /\ w \in Strategists /\ w \notin Recoveries
            /\ UNCHANGED <<is_recovering, accounts_in_recovery>>
        BY <1>1 DEF ReplayAccount, recoveryState
      <3>7. /\ strategy' \in [Workers -> Strategies \cup {"Recovery"}]
            /\ current' \in [Workers -> Accounts \cup {Nobody}] /\ read' \in [Workers -> Nat]
            /\ \A v \in Workers : v # w => current'[v] = current[v]
        BY <1>0, <2>2 DEF WorkType
      <3> QED
        BY <2>1, <2>2, <3>1, <3>3, <3>4, <3>5, <3>6, <3>7, GotoInv, ZenonT(30)
    <2>3. CASE Finish(w)
      BY <1>1, <2>1, <2>3, FinishInv DEF ReplayAccount, recoveryState
    <2> QED
      BY <1>1, <2>2, <2>3 DEF ReplayAccount
  <1>2. CASE ReplayEnds(w)
    <2>1. TopicType'
      BY <1>0, <1>2 DEF ReplayEnds, TopicType, recoveryState
    <2> QED
      BY <1>2, <2>1, FinishInv DEF ReplayEnds, recoveryState
  <1>3. CASE GetLastProcessedVersion(w)
    <2>1. events' \in Seq(Messages)
      <3>1. events \in Seq(Messages) /\ (events # <<>> => Tail(events) \in Seq(Messages))
        BY <1>0, HeadTailType DEF TopicType
      <3> QED
        BY <1>3, <3>1 DEF GetLastProcessedVersion
    <2>2. TopicType'
      BY <1>0, <1>3, <2>1 DEF GetLastProcessedVersion, TopicType, recoveryState
    <2>3. CASE UNCHANGED <<loopVars, workVars>>
      BY <1>0, <1>3, <2>2, <2>3, SendFrame
         DEF GetLastProcessedVersion, WorkType, workVars
    <2>4. CASE Finish(w)
      BY <1>3, <2>2, <2>4, FinishInv DEF GetLastProcessedVersion, recoveryState
    <2> QED
      BY <1>3, <2>3, <2>4 DEF GetLastProcessedVersion
  <1>4. CASE DlqRecovery(w)
    <2>1. events' \in Seq(Messages)
      <3>1. events \in Seq(Messages) /\ (events # <<>> => Tail(events) \in Seq(Messages))
        BY <1>0, HeadTailType DEF TopicType
      <3> QED
        BY <1>4, <3>1 DEF DlqRecovery
    <2>2. TopicType'
      BY <1>0, <1>4, <2>1 DEF DlqRecovery, TopicType, recoveryState
    <2> QED
      BY <1>4, <2>2, FinishInv DEF DlqRecovery, recoveryState
  <1> QED
    BY <1>1, <1>2, <1>3, <1>4 DEF Replay

LEMMA SendInv ==
    ASSUME Inv, NEW w \in Workers, SendEventBatch(w) \/ AllSent(w)
    PROVE  Inv'
  <1> USE RecoverySteps
  <1>0. TopicType /\ WorkType
    OBVIOUS
  <1>1. CASE SendEventBatch(w)
    <2>1. Head(sending[w]) \in Messages /\ Tail(sending[w]) \in Seq(Messages)
      BY <1>0, <1>1, HeadTailType DEF SendEventBatch, WorkType
    <2>2. Append(events, Head(sending[w])) \in Seq(Messages)
      BY <1>0, <2>1, AppendType DEF TopicType
    <2>3. TopicType'
      BY <1>0, <1>1, <2>2, ZenonT(30) DEF SendEventBatch, TopicType, recoveryState
    <2>4. CASE /\ sending' = [sending EXCEPT ![w] = Tail(@)]
               /\ UNCHANGED <<loopVars, wpc, starts, selective, strategy, todo, current, read>>
      <3>1. sending' \in [Workers -> Seq(Messages)]
        BY <1>0, <2>1, <2>4 DEF WorkType
      <3> QED
        BY <1>1, <2>3, <2>4, <3>1, SendFrame DEF SendEventBatch
    <2>5. CASE w \in Strategists /\ Finish(w)
      BY <1>1, <2>3, <2>5, FinishInv DEF SendEventBatch, recoveryState
    <2>6. CASE /\ w \notin Strategists /\ Goto(w, "failed")
               /\ sending' = [sending EXCEPT ![w] = <<>>]
               /\ UNCHANGED <<strategy, todo, current, read>>
      <3>1. sending' \in [Workers -> Seq(Messages)]
        BY <1>0, <2>6, EmptySeq DEF WorkType
      <3> QED
        BY <1>0, <1>1, <2>3, <2>6, <3>1, GotoInv, ZenonT(30)
           DEF SendEventBatch, WorkType, Steps, recoveryState
    <2> QED
      BY <1>1, <2>4, <2>5, <2>6 DEF SendEventBatch
  <1>2. CASE AllSent(w)
    <2>1. TopicType'
      BY <1>0, <1>2 DEF AllSent, TopicType, recoveryState
    <2>2. w \in Recoveries => current[w] \in accounts_in_recovery
      BY <1>2 DEF AllSent, Inv, OneRecovery
    <2>3. CASE w \in Strategists /\ Goto(w, "next")
      BY <1>0, <1>2, <2>1, <2>3, GotoInv, ZenonT(30)
         DEF AllSent, WorkType, Steps, recoveryState
    <2>4. CASE w \notin Strategists /\ Goto(w, "cache")
      BY <1>0, <1>2, <2>1, <2>2, <2>4, GotoInv, ZenonT(30)
         DEF AllSent, WorkType, Steps, recoveryState
    <2> QED
      BY <1>2, <2>3, <2>4 DEF AllSent
  <1> QED
    BY <1>1, <1>2

LEMMA NextInv == Inv /\ [Next]_vars => Inv'
  <1> SUFFICES ASSUME Inv, [Next]_vars PROVE Inv'
    OBVIOUS
  <1>1. CASE Processing
    BY <1>1, ProcessingInv
  <1>2. ASSUME NEW w \in Workers, Work(w) PROVE Inv'
    BY <1>2, RecoveryInv, ReplayInv, SendInv DEF Work
  <1>3. ASSUME NEW w \in Recoveries, StartRecovery(w) PROVE Inv'
    BY <1>3, StartRecoveryInv
  <1>4. ASSUME NEW w \in Strategists, ExecuteRecovery(w) PROVE Inv'
    BY <1>4, ExecuteRecoveryInv
  <1>5. CASE UNCHANGED vars
    <2>1. TopicType' /\ sending' \in [Workers -> Seq(Messages)]
      BY <1>5, TypeParts DEF Inv, TopicType, WorkType, vars, recoveryState, workVars
    <2> QED
      BY <1>5, <2>1, SendFrame DEF vars, workVars
  <1> QED
    BY <1>1, <1>2, <1>3, <1>4, <1>5 DEF Next

LEMMA InvHolds == Spec => []Inv
  BY InitInv, NextInv, PTL DEF Spec

(***************************************************************************)
(* Theorems                                                                *)
(***************************************************************************)
(* Every variable of the pipeline keeps its type: what is sent, replayed   *)
(* and dead-lettered are messages, and histories stay sequences of events. *)
THEOREM TypeCorrect == Spec => []TypeOK
  <1>1. Inv => TypeOK
    BY DEF Inv
  <1> QED
    BY <1>1, InvHolds, PTL

(* Of the recoveries that the loop of start_processing and its callers     *)
(* start at most one is at work, and the account it works on is listed.    *)
THEOREM RecoveriesExclude == Spec => []OneRecovery
  <1>1. Inv => OneRecovery
    BY DEF Inv
  <1> QED
    BY <1>1, InvHolds, PTL

(* Every batch the loop polled is processed, dead-lettered or in hand.     *)
THEOREM NothingIsDropped == Spec => []NothingDropped
  <1>1. Inv => NothingDropped
    BY DEF Inv
  <1> QED
    BY <1>1, InvHolds, PTL

(***************************************************************************)
(* Recoveries and replays end                                              *)
(***************************************************************************)
(* What a worker has ahead of it for the account it is at.                 *)
StagesLeft(step) ==
    CASE step = "idle" -> 0
      [] step = "next" -> 1
      [] step \in {"cache", "scanning", "dlq"} -> 2
      [] step = "failed" -> 3
      [] step = "sending" -> 4
      [] step = "reading" -> 5
      [] step = "verifying" -> 6
      [] step = "accounts" -> 7

(* A worker gets nearer to its end: it has its list of accounts, or fewer  *)
(* accounts to go, or a later stage of the same one, or less to send.      *)
Nearer(w) ==
    \/ wpc[w] = "accounts" /\ wpc'[w] # "accounts"
    \/ /\ wpc'[w] # "accounts"
       /\ \/ todo'[w] \subseteq todo[w] /\ todo'[w] # todo[w]
          \/ todo'[w] = todo[w] /\ StagesLeft(wpc'[w]) < StagesLeft(wpc[w])
          \/ todo'[w] = todo[w] /\ wpc'[w] = wpc[w] /\ Len(sending'[w]) < Len(sending[w])

Waits(w) == wpc'[w] = wpc[w] /\ todo'[w] = todo[w] /\ sending'[w] = sending[w]

(* get_last_processed_version takes a message off the topic and reads on.  *)
Scans(w) == wpc[w] = "scanning" /\ Waits(w) /\ Len(events') < Len(events)

LEMMA FinishNearer ==
    ASSUME WorkType, NEW w \in Workers, Finish(w), wpc[w] # "idle"
    PROVE  Nearer(w) /\ \A v \in Workers \ {w} : Waits(v)
  <1>1. wpc'[w] = "idle" /\ todo'[w] = {} /\ \A v \in Workers \ {w} : Waits(v)
    BY DEF Finish, WorkType, Waits
  <1>2. StagesLeft("idle") < StagesLeft(wpc[w])
    BY DEF WorkType, Steps, StagesLeft
  <1> QED
    BY <1>1, <1>2 DEF Nearer

(* A worker that goes on with the same accounts.                           *)
LEMMA GotoNearer ==
    ASSUME WorkType, NEW w \in Workers, NEW step \in Steps, Goto(w, step), UNCHANGED todo,
           \A v \in Workers \ {w} : sending'[v] = sending[v],
           wpc[w] = "accounts" \/ StagesLeft(step) < StagesLeft(wpc[w]), step # "accounts"
    PROVE  Nearer(w) /\ \A v \in Workers \ {w} : Waits(v)
  <1>1. wpc'[w] = step /\ \A v \in Workers \ {w} : wpc'[v] = wpc[v]
    BY DEF Goto, WorkType
  <1> QED
    BY <1>1 DEF Nearer, Waits

(* A worker that takes an account off its list.                            *)
LEMMA TakeNearer ==
    ASSUME WorkType, NEW w \in Workers, NEW step \in Steps, Goto(w, step),
           NEW a \in todo[w], todo' = [todo EXCEPT ![w] = @ \ {a}],
           \A v \in Workers \ {w} : sending'[v] = sending[v], step # "accounts"
    PROVE  Nearer(w) /\ \A v \in Workers \ {w} : Waits(v)
  <1>1. wpc'[w] = step /\ \A v \in Workers \ {w} : wpc'[v] = wpc[v] /\ todo'[v] = todo[v]
    BY DEF Goto, WorkType
  <1>2. todo'[w] = todo[w] \ {a}
    BY DEF WorkType
  <1> QED
    BY <1>1, <1>2 DEF Nearer, Waits

LEMMA RecoveryNearer ==
    ASSUME WorkType, NEW w \in Workers, Recovery(w)
    PROVE  Nearer(w) /\ \A v \in Workers \ {w} : Waits(v)
  <1>1. CASE GetAllAccounts(w)
    <2>1. CASE todo' = [todo EXCEPT ![w] = Accounts] /\ Goto(w, "next") /\ UNCHANGED sending
      <3>1. wpc'[w] = "next" /\ \A v \in Workers \ {w} : Waits(v)
        BY <2>1 DEF Goto, WorkType, Waits
      <3> QED
        BY <1>1, <3>1 DEF GetAllAccounts, Nearer
    <2> QED
      BY <1>1, <2>1, FinishNearer DEF GetAllAccounts
  <1>2. CASE NextAccount(w)
    <2>1. PICK a \in todo[w] :
             \/ todo' = [todo EXCEPT ![w] = @ \ {a}] /\ Goto(w, "verifying") /\ UNCHANGED sending
             \/ Finish(w)
      BY <1>2 DEF NextAccount
    <2> QED
      BY <1>2, <2>1, FinishNearer, TakeNearer DEF NextAccount, Steps
  <1>3. CASE VerifyAccountEvents(w)
    <2>1. /\ wpc[w] = "verifying" /\ UNCHANGED <<todo, sending>>
          /\ Goto(w, "reading") \/ Goto(w, "failed")
      BY <1>3 DEF VerifyAccountEvents
    <2>2. StagesLeft("reading") < StagesLeft("verifying") /\ StagesLeft("failed") < StagesLeft("verifying")
      BY DEF StagesLeft
    <2> QED
      BY <2>1, <2>2, GotoNearer DEF Steps
  <1>4. CASE HandleFailure(w)
    <2>1. /\ wpc[w] = "failed"
          /\ (Goto(w, "next") /\ UNCHANGED <<todo, sending>>) \/ Finish(w)
      BY <1>4 DEF HandleFailure
    <2>2. StagesLeft("next") < StagesLeft("failed")
      BY DEF StagesLeft
    <2> QED
      BY <2>1, <2>2, GotoNearer, FinishNearer DEF Steps
  <1>5. CASE ReplayAccountEvents(w)
    <2>1. /\ wpc[w] = "reading" /\ UNCHANGED todo
          /\ \A v \in Workers \ {w} : sending'[v] = sending[v]
          /\ Goto(w, "sending") \/ Goto(w, "failed")
      BY <1>5 DEF ReplayAccountEvents, WorkType
    <2>2. StagesLeft("sending") < StagesLeft("reading") /\ StagesLeft("failed") < StagesLeft("reading")
      BY DEF StagesLeft
    <2> QED
      BY <2>1, <2>2, GotoNearer DEF Steps
  <1>6. CASE UpdateAccountCache(w)
    <2>1. /\ wpc[w] = "cache"
          /\ (Goto(w, "next") /\ UNCHANGED <<todo, sending>>) \/ Finish(w)
      BY <1>6 DEF UpdateAccountCache
    <2>2. StagesLeft("next") < StagesLeft("cache")
      BY DEF StagesLeft
    <2> QED
      BY <2>1, <2>2, GotoNearer, FinishNearer DEF Steps
  <1>7. CASE RecoveryEnds(w)
    BY <1>7, FinishNearer DEF RecoveryEnds
  <1> QED
    BY <1>1, <1>2, <1>3, <1>4, <1>5, <1>6, <1>7 DEF Recovery

LEMMA ReplayNearer ==
    ASSUME WorkType, TopicType, NEW w \in Workers, Replay(w)
    PROVE  (Nearer(w) \/ Scans(w)) /\ \A v \in Workers \ {w} : Waits(v)
  <1>1. CASE ReplayAccount(w)
    <2>1. ASSUME NEW a \in todo[w], todo' = [todo EXCEPT ![w] = @ \ {a}], NEW s,
                 sending' = [sending EXCEPT ![w] = s],
                 Goto(w, IF strategy[w] = "IncrementalReplay" THEN "scanning" ELSE "sending")
          PROVE  Nearer(w) /\ \A v \in Workers \ {w} : Waits(v)
      <3>1. \A v \in Workers \ {w} : sending'[v] = sending[v]
        BY <2>1 DEF WorkType
      <3>2. CASE strategy[w] = "IncrementalReplay"
        BY <2>1, <3>1, <3>2, TakeNearer, ZenonT(30) DEF Steps
      <3>3. CASE strategy[w] # "IncrementalReplay"
        BY <2>1, <3>1, <3>3, TakeNearer, ZenonT(30) DEF Steps
      <3> QED
        BY <3>2, <3>3
    <2>2. wpc[w] = "next"
      BY <1>1 DEF ReplayAccount
    <2>3. \/ /\ \E a \in todo[w] : \E s :
                   todo' = [todo EXCEPT ![w] = @ \ {a}] /\ sending' = [sending EXCEPT ![w] = s]
             /\ Goto(w, IF strategy[w] = "IncrementalReplay" THEN "scanning" ELSE "sending")
          \/ Finish(w)
      BY <1>1, ZenonT(30) DEF ReplayAccount
    <2> QED
      BY <2>1, <2>2, <2>3, FinishNearer
  <1>2. CASE ReplayEnds(w)
    BY <1>2, FinishNearer DEF ReplayEnds
  <1>3. CASE GetLastProcessedVersion(w)
    <2>1. CASE events # <<>> /\ events' = Tail(events) /\ UNCHANGED workVars
      <3>1. Len(Tail(events)) = Len(events) - 1 /\ Len(events) \in Nat
        BY <2>1, HeadTailProperties, LenProperties DEF TopicType
      <3>2. \A v \in Workers : Waits(v)
        <4>1. UNCHANGED <<wpc, todo, sending>>
          BY <2>1 DEF workVars
        <4> QED
          BY <4>1 DEF Waits
      <3>3. wpc[w] = "scanning"
        BY <1>3 DEF GetLastProcessedVersion
      <3>4. Len(events') < Len(events)
        BY <2>1, <3>1
      <3> QED
        BY <3>2, <3>3, <3>4 DEF Scans
    <2> QED
      BY <1>3, <2>1, FinishNearer DEF GetLastProcessedVersion
  <1>4. CASE DlqRecovery(w)
    BY <1>4, FinishNearer DEF DlqRecovery
  <1> QED
    BY <1>1, <1>2, <1>3, <1>4 DEF Replay

LEMMA SendNearer ==
    ASSUME WorkType, NEW w \in Workers, SendEventBatch(w) \/ AllSent(w)
    PROVE  Nearer(w) /\ \A v \in Workers \ {w} : Waits(v)
  <1>1. CASE SendEventBatch(w)
    <2>1. wpc[w] = "sending" /\ sending[w] # <<>> /\ sending[w] \in Seq(Messages)
      BY <1>1 DEF SendEventBatch, WorkType
    <2>2. CASE sending' = [sending EXCEPT ![w] = Tail(@)] /\ UNCHANGED <<wpc, todo>>
      <3>1. sending'[w] = Tail(sending[w]) /\ \A v \in Workers \ {w} : Waits(v)
        BY <2>2 DEF WorkType, Waits
      <3>2. Len(Tail(sending[w])) < Len(sending[w])
        BY <2>1, HeadTailProperties, LenProperties
      <3> QED
        BY <2>1, <2>2, <3>1, <3>2, ZenonT(30) DEF Nearer
    <2>3. CASE Goto(w, "failed") /\ sending' = [sending EXCEPT ![w] = <<>>] /\ UNCHANGED todo
      <3>1. \A v \in Workers \ {w} : sending'[v] = sending[v]
        BY <2>3 DEF WorkType
      <3>2. StagesLeft("failed") < StagesLeft("sending")
        BY DEF StagesLeft
      <3> QED
        BY <2>1, <2>3, <3>1, <3>2, GotoNearer DEF Steps
    <2> QED
      BY <1>1, <2>1, <2>2, <2>3, FinishNearer DEF SendEventBatch
  <1>2. CASE AllSent(w)
    <2>1. wpc[w] = "sending" /\ UNCHANGED <<todo, sending>> /\ (Goto(w, "next") \/ Goto(w, "cache"))
      BY <1>2 DEF AllSent
    <2>2. StagesLeft("next") < StagesLeft("sending") /\ StagesLeft("cache") < StagesLeft("sending")
      BY DEF StagesLeft
    <2> QED
      BY <2>1, <2>2, GotoNearer DEF Steps
  <1> QED
    BY <1>1, <1>2

(* Each step of a recovery or a replay brings it nearer to its end, except *)
(* that an incremental replay may go on reading the topic; and no step of  *)
(* the loop or of another worker takes it back.                            *)
WorkComesNearer ==
    \A w \in Workers :
        /\ Work(w) => Nearer(w) \/ Scans(w)
        /\ wpc[w] # "idle" => Nearer(w) \/ Waits(w)

(* perform_recovery and the strategies of execute_recovery end after a     *)
(* bounded number of their own steps: start_processing, which waits for    *)
(* the recovery it starts, gets back to its topic.  Only                   *)
(* get_last_processed_version has no bound of its own, and every step it   *)
(* goes on for takes a message the loop will not see.                      *)
THEOREM RecoveriesAreFinite == Spec => [][WorkComesNearer]_vars
  <1>1. Inv /\ [Next]_vars => [WorkComesNearer]_vars
    <2> SUFFICES ASSUME Inv, Next, NEW w \in Workers
                 PROVE  /\ Work(w) => Nearer(w) \/ Scans(w)
                        /\ wpc[w] # "idle" => Nearer(w) \/ Waits(w)
      BY DEF WorkComesNearer
    <2>0. WorkType /\ TopicType
      BY TypeParts DEF Inv
    <2>1. ASSUME NEW v \in Workers, Work(v)
          PROVE  (Nearer(v) \/ Scans(v)) /\ \A u \in Workers \ {v} : Waits(u)
      BY <2>0, <2>1, RecoveryNearer, ReplayNearer, SendNearer DEF Work
    <2>2. ASSUME Processing PROVE Waits(w)
      BY <2>2, ZenonT(30) DEF Processing, StartProcessing, PollEvents, SaveEvents, UpdateCaches, SendToDlq,
                  ProcessDlq, workVars, Waits
    <2>3. ASSUME NEW v \in Recoveries, StartRecovery(v), wpc[w] # "idle"
          PROVE  Waits(w)
      BY <2>0, <2>3 DEF StartRecovery, WorkType, Waits
    <2>4. ASSUME NEW v \in Strategists, ExecuteRecovery(v), wpc[w] # "idle"
          PROVE  Waits(w)
      <3>1. /\ v # w /\ UNCHANGED sending
            /\ \E s, t : wpc' = [wpc EXCEPT ![v] = s] /\ todo' = [todo EXCEPT ![v] = t]
        BY <2>4, ZenonT(30) DEF ExecuteRecovery
      <3> QED
        BY <2>0, <3>1 DEF WorkType, Waits
    <2>5. wpc[w] # "idle" => Nearer(w) \/ Waits(w)
      BY <2>1, <2>2, <2>3, <2>4 DEF Next, Scans
    <2> QED
      BY <2>1, <2>5
  <1> QED
    BY <1>1, InvHolds, PTL DEF Spec

(* The flag without a recovery behind it.                                  *)
FlagIsStale == is_recovering /\ \A w \in Recoveries : wpc[w] = "idle"

(* A recovery that fails leaves is_recovering set, and so does every       *)
(* recovery the loop runs: from then on no recovery ever starts again.     *)
THEOREM StaleFlagsStay == Spec => [][FlagIsStale => FlagIsStale']_vars
  <1>1. Inv /\ [Next]_vars => [FlagIsStale => FlagIsStale']_vars
    <2> SUFFICES ASSUME Inv, Next, FlagIsStale PROVE FlagIsStale'
      OBVIOUS
    <2>0. WorkType /\ Recoveries \subseteq Workers /\ Strategists \cap Recoveries = {}
      BY TypeParts, EventPipelineAssumption DEF Inv, Workers, Recoveries
    <2>1. CASE Processing
      BY <2>1, ZenonT(30) DEF Processing, StartProcessing, PollEvents, SaveEvents, UpdateCaches, SendToDlq,
                  ProcessDlq, workVars, recoveryState, FlagIsStale
    <2>2. ASSUME NEW w \in Workers, Work(w) PROVE FlagIsStale'
      <3>1. w \notin Recoveries
        BY <2>0, <2>2, ZenonT(30) DEF FlagIsStale, Work, Recovery, Replay, SendEventBatch, AllSent,
           GetAllAccounts, NextAccount, VerifyAccountEvents, HandleFailure, ReplayAccountEvents,
           UpdateAccountCache, RecoveryEnds, ReplayAccount, ReplayEnds,
           GetLastProcessedVersion, DlqRecovery
      <3>2. Replay(w) \/ SendEventBatch(w) \/ AllSent(w)
        BY <2>2, <3>1, RecoverySteps DEF Work, Recovery, GetAllAccounts, NextAccount,
           VerifyAccountEvents, HandleFailure, ReplayAccountEvents, UpdateAccountCache, RecoveryEnds
      <3>3. UNCHANGED is_recovering
        BY <3>2 DEF Replay, SendEventBatch, AllSent, ReplayAccount, ReplayEnds,
           GetLastProcessedVersion, DlqRecovery, recoveryState
      <3>4. \A v \in Workers \ {w} : wpc'[v] = wpc[v]
        BY <2>0, <2>2, TypeParts, RecoveryNearer, ReplayNearer, SendNearer, ZenonT(30)
           DEF Inv, Work, Waits
      <3> QED
        BY <2>0, <3>1, <3>3, <3>4 DEF FlagIsStale
    <2>3. ASSUME NEW w \in Recoveries, StartRecovery(w) PROVE FALSE
      BY <2>3 DEF StartRecovery, FlagIsStale
    <2>4. ASSUME NEW w \in Strategists, ExecuteRecovery(w) PROVE FlagIsStale'
      <3>1. UNCHANGED is_recovering /\ \E s : wpc' = [wpc EXCEPT ![w] = s]
        BY <2>4, ZenonT(30) DEF ExecuteRecovery, recoveryState
      <3> QED
        BY <2>0, <3>1 DEF FlagIsStale, WorkType
    <2> QED
      BY <2>1, <2>2, <2>3, <2>4 DEF Next
  <1> QED
    BY <1>1, InvHolds, PTL DEF Spec
=============================================================================
