-------------------------- MODULE EventStoreProofs --------------------------
(***************************************************************************)
(* Proofs about EventStore, for any number of requests, aggregates and     *)
(* flush tasks, any calls, any stored events and any configuration.        *)
(***************************************************************************)
EXTENDS EventStore, FiniteSetTheorems, SequenceTheorems, TLAPS

(***************************************************************************)
(* Sequences as collections of requests                                    *)
(***************************************************************************)
(* Adding a new element at the end keeps a sequence free of duplicates.    *)
LEMMA AppendFacts ==
    ASSUME NEW S, NEW s \in Seq(S), NEW e \in S
    PROVE  /\ Append(s, e) \in Seq(S)
           /\ Append(s, e) # <<>>
           /\ Range(Append(s, e)) = Range(s) \cup {e}
           /\ IsInjective(s) /\ e \notin Range(s) => IsInjective(Append(s, e))
  BY AppendProperties DEF Range, IsInjective

(* Taking the first element from a sequence free of duplicates removes it. *)
LEMMA HeadTailFacts ==
    ASSUME NEW S, NEW s \in Seq(S), s # <<>>
    PROVE  /\ Head(s) \in S
           /\ Tail(s) \in Seq(S)
           /\ Head(s) \in Range(s)
           /\ Range(s) = {Head(s)} \cup Range(Tail(s))
           /\ IsInjective(s) => IsInjective(Tail(s)) /\ Head(s) \notin Range(Tail(s))
  <1>1. /\ Head(s) \in S /\ Tail(s) \in Seq(S)
        /\ Len(Tail(s)) = Len(s) - 1
        /\ \A i \in 1 .. Len(Tail(s)) : Tail(s)[i] = s[i + 1]
        /\ Head(s) = s[1]
        /\ Len(s) \in Nat \ {0}
        /\ DOMAIN s = 1 .. Len(s) /\ DOMAIN Tail(s) = 1 .. Len(Tail(s))
    BY HeadTailProperties, LenProperties, EmptySeq
  <1>2. \A x : x \in Range(s) <=> \E i \in 1 .. Len(s) : x = s[i]
    BY <1>1 DEF Range
  <1>3. \A x : x \in Range(Tail(s)) <=> \E i \in 1 .. Len(s) - 1 : x = s[i + 1]
    BY <1>1, ZenonT(30) DEF Range
  <1>4. Range(s) = {Head(s)} \cup Range(Tail(s))
    <2>1. ASSUME NEW x \in Range(s) PROVE x \in {Head(s)} \cup Range(Tail(s))
      <3>1. PICK i \in 1 .. Len(s) : x = s[i]
        BY <1>2
      <3>2. CASE i = 1
        BY <3>1, <3>2, <1>1
      <3>3. CASE i # 1
        <4>1. i - 1 \in 1 .. Len(s) - 1 /\ (i - 1) + 1 = i
          BY <3>3, <1>1
        <4> QED
          BY <4>1, <3>1, <1>3, ZenonT(30)
      <3> QED
        BY <3>2, <3>3
    <2>2. Head(s) \in Range(s)
      BY <1>1, <1>2
    <2>3. ASSUME NEW x \in Range(Tail(s)) PROVE x \in Range(s)
      BY <1>1, <1>2, <1>3
    <2> QED
      BY <2>1, <2>2, <2>3
  <1>5. IsInjective(s) => IsInjective(Tail(s)) /\ Head(s) \notin Range(Tail(s))
    BY <1>1, <1>3 DEF IsInjective
  <1> QED
    BY <1>1, <1>4, <1>5

(* The empty sequence holds nothing.                                       *)
LEMMA EmptyFacts ==
    /\ \A S : <<>> \in Seq(S)
    /\ Range(<<>>) = {}
    /\ IsInjective(<<>>)
  BY DEF Range, IsInjective

(***************************************************************************)
(* The inductive invariant                                                 *)
(***************************************************************************)
(* OnePlace is part of it because a flush reads the arguments of its       *)
(* current entry in several steps: they are still the same only because    *)
(* nobody else can answer that entry in between.                           *)

(* What a flush knows about its current entry.                             *)
FlushKnows(f) ==
    /\ fpc[f] = "idle" => todo[f] = <<>>
    /\ fpc[f] \in {"select", "insert"} => todo[f] # <<>>
    /\ fpc[f] = "insert" =>
          /\ arg[Entry(f)].count = 1
          /\ FirstVersion(Entry(f)) \in rows[Agg(f)]

FlushState == \A f \in Flushes : FlushKnows(f)

(* The table is as it was, no transaction holds an uncommitted row, and    *)
(* snapshots are subsets of the table.                                     *)
TableState ==
    /\ rows = InitialRows
    /\ inserted = [f \in Flushes |-> {}]
    /\ \A f \in Flushes : \A a \in Aggregates : snapshot[f][a] \subseteq rows[a]

(* What get_current_version read, and what is cached, is the version of    *)
(* the table.                                                              *)
VersionsMatch ==
    \A p \in lookup \cup version_cache : Log!IsCurrent(rows[p[1]], p[2])

Inv ==
    /\ TypeOK
    /\ PermitAccounting
    /\ OnePlace
    /\ FlushState
    /\ TableState
    /\ VersionsMatch
    /\ NoSaveSucceeds

(* A request that is not running has some call as its argument.            *)
LEMMA NoCallType == \A r \in Requests : NoCall(r) \in UNION Range(CallsOf)
  BY EventStoreAssumption DEF NoCall, Range

(* The arguments of a call.                                                *)
LEMMA CallType ==
    /\ \A r \in Requests : CallsOf[r] \subseteq UNION Range(CallsOf)
    /\ \A c \in UNION Range(CallsOf) :
          c.agg \in Aggregates /\ c.expected \in Int /\ c.count \in Nat \ {0}
  BY EventStoreAssumption DEF Range

(* The initial state satisfies the invariant.                              *)
LEMMA InitInv == Init => Inv
  <1> SUFFICES ASSUME Init PROVE Inv
    OBVIOUS
  <1>1. TypeOK
    <2>1. pc \in [Requests -> CallStages] /\ result \in [Requests -> Results]
      BY DEF Init, CallStages, Results
    <2>2. arg \in [Requests -> UNION Range(CallsOf)]
      BY NoCallType DEF Init
    <2>3. permits \in 0 .. MaxBatchQueueSize
      BY EventStoreAssumption DEF Init
    <2>4. /\ queue \in Seq(Requests) /\ batch \in Seq(Requests)
          /\ todo \in [Flushes -> Seq(Requests)]
      BY EmptyFacts DEF Init
    <2>5. fpc \in [Flushes -> FlushStages] /\ tx \in [Flushes -> TxStates]
      BY DEF Init, FlushStages, TxStates
    <2>6. /\ snapshot \in [Flushes -> [Aggregates -> SUBSET Nat]]
          /\ locks \in [Flushes -> SUBSET (Aggregates \X Nat)]
          /\ inserted \in [Flushes -> SUBSET (Aggregates \X Nat)]
      BY DEF Init, NoRows
    <2>7. rows \in [Aggregates -> SUBSET Nat]
      BY EventStoreAssumption DEF Init
    <2>8. lookup \subseteq Aggregates \X Nat /\ version_cache \subseteq Aggregates \X Nat
      BY DEF Init
    <2> QED
      BY <2>1, <2>2, <2>3, <2>4, <2>5, <2>6, <2>7, <2>8 DEF TypeOK
  <1>2. PermitAccounting
    <2>1. Holders = {}
      BY DEF Init, Holders
    <2>2. Cardinality(Holders) = 0
      BY <2>1, FS_EmptySet
    <2> QED
      BY <2>2, EventStoreAssumption DEF Init, PermitAccounting
  <1>3. OnePlace
    BY EmptyFacts DEF Init, OnePlace, InFlight, InFlushes
  <1>4. FlushState
    BY DEF Init, FlushState, FlushKnows
  <1>5. TableState
    BY EventStoreAssumption DEF Init, TableState, NoRows
  <1>6. VersionsMatch /\ NoSaveSucceeds
    BY DEF Init, VersionsMatch, NoSaveSucceeds
  <1> QED
    BY <1>1, <1>2, <1>3, <1>4, <1>5, <1>6 DEF Inv

(* The current entry of a flush is an unanswered request, and no other     *)
(* flush has it.                                                           *)
LEMMA EntryFacts ==
    ASSUME TypeOK, OnePlace, NEW f \in Flushes, todo[f] # <<>>
    PROVE  /\ Entry(f) \in Requests
           /\ Entry(f) \in InFlight
           /\ Entry(f) \in Range(todo[f])
           /\ \A g \in Flushes : g # f => Entry(f) \notin Range(todo[g])
           /\ Tail(todo[f]) \in Seq(Requests)
           /\ Range(todo[f]) = {Entry(f)} \cup Range(Tail(todo[f]))
           /\ IsInjective(Tail(todo[f]))
           /\ Entry(f) \notin Range(Tail(todo[f]))
  <1>1. todo[f] \in Seq(Requests)
    BY DEF TypeOK
  <1>2. IsInjective(todo[f])
    BY DEF OnePlace
  <1>3. /\ Entry(f) \in Requests
        /\ Entry(f) \in Range(todo[f])
        /\ Tail(todo[f]) \in Seq(Requests)
        /\ Range(todo[f]) = {Entry(f)} \cup Range(Tail(todo[f]))
        /\ IsInjective(Tail(todo[f]))
        /\ Entry(f) \notin Range(Tail(todo[f]))
    BY <1>1, <1>2, HeadTailFacts DEF Entry
  <1>4. Range(todo[f]) \subseteq InFlight
    BY DEF OnePlace, InFlushes
  <1>5. \A g \in Flushes : g # f => Entry(f) \notin Range(todo[g])
    BY <1>3 DEF OnePlace
  <1> QED
    BY <1>3, <1>4, <1>5

(* A flush that does not move keeps what it knows, if nobody touches its   *)
(* queue, the arguments of its entry or the table.                         *)
LEMMA FlushFrame ==
    ASSUME FlushState, NEW f \in Flushes, rows' = rows,
           fpc'[f] = fpc[f], todo'[f] = todo[f],
           todo[f] # <<>> => arg'[Entry(f)] = arg[Entry(f)]
    PROVE  FlushKnows(f)'
  BY DEF FlushState, FlushKnows, Entry, Agg, FirstVersion

(* The parts of the invariant that only depend on the table and the cache. *)
LEMMA TableFrame ==
    ASSUME TableState, VersionsMatch,
           UNCHANGED <<rows, inserted, snapshot, lookup, version_cache>>
    PROVE  TableState' /\ VersionsMatch'
  BY DEF TableState, VersionsMatch, Log!IsCurrent

(* The permits in use are finitely many.                                   *)
LEMMA HoldersFinite ==
    /\ IsFiniteSet(Holders) /\ IsFiniteSet(Holders')
    /\ Cardinality(Holders) \in Nat /\ Cardinality(Holders') \in Nat
  <1>1. Holders \subseteq Requests /\ Holders' \subseteq Requests
    BY DEF Holders
  <1> QED
    BY <1>1, FS_Subset, FS_CardinalityType, EventStoreAssumption

(* A request that stops holding a permit gives it back.                    *)
LEMMA ReleasePermit ==
    ASSUME Inv, NEW r \in Holders, Holders' = Holders \ {r}, permits' = permits + 1
    PROVE  PermitAccounting' /\ permits' \in 0 .. MaxBatchQueueSize
  <1>1. Cardinality(Holders') = Cardinality(Holders) - 1
    BY HoldersFinite, FS_RemoveElement
  <1> QED
    BY <1>1, HoldersFinite, EventStoreAssumption DEF Inv, TypeOK, PermitAccounting

(* If requests, permits and places keep their relations, so do the parts   *)
(* of the invariant that depend on them.                                   *)
LEMMA CountFrame ==
    ASSUME Inv, Holders' = Holders, permits' = permits
    PROVE  PermitAccounting'
  BY DEF Inv, PermitAccounting

(***************************************************************************)
(* save_events                                                             *)
(***************************************************************************)
(* Starting a save preserves the invariant.                                *)
LEMMA SaveEventsInv ==
    ASSUME Inv, NEW r \in Requests, SaveEvents(r)
    PROVE  Inv'
  <1> USE DEF SaveEvents, processorVars, txVars, cacheVars, callVars
  <1>1. TypeOK'
    <2>1. pc' \in [Requests -> CallStages]
      BY DEF Inv, TypeOK, CallStages
    <2>2. arg' \in [Requests -> UNION Range(CallsOf)]
      BY CallType DEF Inv, TypeOK
    <2> QED
      BY <2>1, <2>2 DEF Inv, TypeOK
  <1>2. Holders' = Holders /\ InFlight' = InFlight
    BY DEF Inv, TypeOK, Holders, InFlight
  <1>3. PermitAccounting'
    BY <1>2 DEF Inv, PermitAccounting
  <1>4. OnePlace'
    BY <1>2 DEF Inv, OnePlace, InFlushes
  <1>5. FlushState'
    <2> SUFFICES ASSUME NEW f \in Flushes PROVE FlushKnows(f)'
      BY DEF FlushState
    <2>1. r \notin InFlight
      BY DEF InFlight
    <2>2. todo[f] # <<>> => arg'[Entry(f)] = arg[Entry(f)]
      BY <2>1, EntryFacts DEF Inv, TypeOK
    <2> QED
      BY <2>2, FlushFrame DEF Inv
  <1>6. TableState' /\ VersionsMatch'
    BY TableFrame DEF Inv
  <1>7. NoSaveSucceeds'
    BY DEF Inv, NoSaveSucceeds
  <1> QED
    BY <1>1, <1>3, <1>4, <1>5, <1>6, <1>7 DEF Inv

(* Entering the channel with a permit preserves the invariant.             *)
LEMMA AcquirePermitInv ==
    ASSUME Inv, NEW r \in Requests, AcquirePermit(r)
    PROVE  Inv'
  <1> USE DEF AcquirePermit, processorVars, txVars, cacheVars, callVars
  <1>1. Holders' = Holders \cup {r} /\ r \notin Holders
    BY DEF Inv, TypeOK, Holders
  <1>2. InFlight' = InFlight \cup {r} /\ r \notin InFlight
    BY DEF Inv, TypeOK, InFlight
  <1>3. r \notin Range(queue) /\ r \notin Range(batch)
        /\ \A f \in Flushes : r \notin Range(todo[f])
    BY <1>2 DEF Inv, OnePlace, InFlushes
  <1>4. /\ queue' \in Seq(Requests)
        /\ Range(queue') = Range(queue) \cup {r}
        /\ IsInjective(queue')
    BY <1>3, AppendFacts DEF Inv, TypeOK, OnePlace
  <1>5. TypeOK'
    <2>1. pc' \in [Requests -> CallStages]
      BY DEF Inv, TypeOK, CallStages
    <2>2. permits' \in 0 .. MaxBatchQueueSize
      BY EventStoreAssumption DEF Inv, TypeOK
    <2> QED
      BY <2>1, <2>2, <1>4 DEF Inv, TypeOK
  <1>6. PermitAccounting'
    <2>1. Cardinality(Holders') = Cardinality(Holders) + 1
      BY <1>1, HoldersFinite, FS_AddElement
    <2> QED
      BY <2>1, HoldersFinite, EventStoreAssumption DEF Inv, TypeOK, PermitAccounting
  <1>7. OnePlace'
    <2>1. UNCHANGED <<batch, todo, InFlushes>>
      BY DEF InFlushes
    <2> QED
      BY <2>1, <1>2, <1>3, <1>4, ZenonT(60) DEF Inv, OnePlace
  <1>8. FlushState'
    BY FlushFrame DEF Inv, FlushState
  <1>9. TableState' /\ VersionsMatch'
    BY TableFrame DEF Inv
  <1>10. NoSaveSucceeds'
    BY DEF Inv, NoSaveSucceeds
  <1> QED
    BY <1>5, <1>6, <1>7, <1>8, <1>9, <1>10 DEF Inv

(* Returning to the caller preserves the invariant.                        *)
LEMMA ReturnFromSaveInv ==
    ASSUME Inv, NEW r \in Requests, ReturnFromSave(r)
    PROVE  Inv'
  <1> USE DEF ReturnFromSave, processorVars, txVars, cacheVars, callVars
  <1>1. Holders' = Holders \ {r} /\ r \in Holders
    BY DEF Inv, TypeOK, Holders
  <1>2. InFlight' = InFlight /\ r \notin InFlight
    BY DEF Inv, TypeOK, InFlight
  <1>3. PermitAccounting' /\ permits' \in 0 .. MaxBatchQueueSize
    BY <1>1, ReleasePermit
  <1>4. TypeOK'
    <2>1. pc' \in [Requests -> CallStages] /\ result' \in [Requests -> Results]
      BY DEF Inv, TypeOK, CallStages, Results
    <2>2. arg' \in [Requests -> UNION Range(CallsOf)]
      BY NoCallType DEF Inv, TypeOK
    <2> QED
      BY <2>1, <2>2, <1>3 DEF Inv, TypeOK
  <1>5. OnePlace'
    BY <1>2 DEF Inv, OnePlace, InFlushes
  <1>6. FlushState'
    <2> SUFFICES ASSUME NEW f \in Flushes PROVE FlushKnows(f)'
      BY DEF FlushState
    <2>1. todo[f] # <<>> => arg'[Entry(f)] = arg[Entry(f)]
      BY <1>2, EntryFacts DEF Inv, TypeOK
    <2> QED
      BY <2>1, FlushFrame DEF Inv
  <1>7. TableState' /\ VersionsMatch'
    BY TableFrame DEF Inv
  <1>8. NoSaveSucceeds'
    BY DEF Inv, TypeOK, NoSaveSucceeds
  <1> QED
    BY <1>3, <1>4, <1>5, <1>6, <1>7, <1>8 DEF Inv

(* A client that goes away, waiting or not, preserves the invariant.       *)
LEMMA CancelInv ==
    ASSUME Inv, NEW r \in Requests, Cancel(r)
    PROVE  Inv'
  <1> USE DEF processorVars, txVars, cacheVars, callVars
  <1>1. UNCHANGED <<queue, batch, fpc, todo, tx, snapshot, locks, inserted,
                    rows, lookup, version_cache>>
    BY DEF Cancel
  <1>2. InFlight' = InFlight
    BY DEF Inv, TypeOK, InFlight, Cancel
  <1>3. /\ pc' \in [Requests -> CallStages]
        /\ arg' \in [Requests -> UNION Range(CallsOf)]
        /\ result' \in [Requests -> Results]
        /\ NoSaveSucceeds'
    BY NoCallType, ZenonT(60) DEF Cancel, Inv, TypeOK, CallStages, Results, NoSaveSucceeds
  <1>4. PermitAccounting' /\ permits' \in 0 .. MaxBatchQueueSize
    <2>1. CASE pc[r] = "acquire"
      <3>1. Holders' = Holders /\ permits' = permits
        BY <2>1 DEF Cancel, Inv, TypeOK, Holders
      <3> QED
        BY <3>1, CountFrame DEF Inv, TypeOK
    <2>2. CASE pc[r] = "wait"
      <3>1. r \in Holders /\ Holders' = Holders \ {r} /\ permits' = permits + 1
        BY <2>2 DEF Cancel, Inv, TypeOK, Holders
      <3> QED
        BY <3>1, ReleasePermit
    <2> QED
      BY <2>1, <2>2 DEF Cancel
  <1>5. TypeOK'
    BY <1>1, <1>3, <1>4 DEF Inv, TypeOK
  <1>6. OnePlace'
    BY <1>1, <1>2 DEF Inv, OnePlace, InFlushes
  <1>7. FlushState'
    <2> SUFFICES ASSUME NEW f \in Flushes PROVE FlushKnows(f)'
      BY DEF FlushState
    <2>1. todo[f] # <<>> => arg'[Entry(f)] = arg[Entry(f)]
      <3>1. pc[r] = "acquire" => r \notin InFlight
        BY DEF InFlight
      <3> QED
        BY <3>1, EntryFacts DEF Inv, TypeOK, Cancel
    <2> QED
      BY <1>1, <2>1, FlushFrame DEF Inv
  <1>8. TableState' /\ VersionsMatch'
    BY <1>1, TableFrame DEF Inv
  <1> QED
    BY <1>3, <1>4, <1>5, <1>6, <1>7, <1>8 DEF Inv

(***************************************************************************)
(* batch_processor                                                         *)
(***************************************************************************)
(* A spawned task takes the entries over from the batch.                   *)
LEMMA SpawnFacts ==
    ASSUME Inv, NEW entries \in Seq(Requests), IsInjective(entries),
           Range(entries) \cap InFlushes = {}, Spawn(entries),
           UNCHANGED <<arg, rows>>
    PROVE  /\ fpc' \in [Flushes -> FlushStages]
           /\ todo' \in [Flushes -> Seq(Requests)]
           /\ InFlushes' = InFlushes \cup Range(entries)
           /\ \A f \in Flushes :
                 IsInjective(todo[f])' /\ Range(todo[f])' \subseteq Range(todo[f]) \cup Range(entries)
           /\ \A f, g \in Flushes : f # g => Range(todo[f])' \cap Range(todo[g])' = {}
           /\ FlushState'
  <1>1. PICK f \in Flushes : /\ fpc[f] = "idle"
                             /\ fpc' = [fpc EXCEPT ![f] = "begin"]
                             /\ todo' = [todo EXCEPT ![f] = entries]
    BY ZenonT(30) DEF Spawn
  <1>2. todo[f] = <<>> /\ Range(todo[f]) = {}
    BY <1>1, EmptyFacts DEF Inv, FlushState, FlushKnows
  <1>3. /\ fpc' \in [Flushes -> FlushStages]
        /\ todo' \in [Flushes -> Seq(Requests)]
    BY <1>1 DEF Inv, TypeOK, FlushStages
  <1>4. /\ todo'[f] = entries
        /\ \A g \in Flushes : g # f => todo'[g] = todo[g] /\ fpc'[g] = fpc[g]
    BY <1>1 DEF Inv, TypeOK
  <1>5. /\ \A g \in Flushes : IsInjective(todo[g])'
        /\ Range(todo[f])' = Range(entries)
        /\ \A g \in Flushes : g # f => Range(todo[g])' = Range(todo[g])
    BY <1>4 DEF Inv, OnePlace
  <1>6. InFlushes' = InFlushes \cup Range(entries)
    BY <1>2, <1>5 DEF InFlushes
  <1>7. \A g, h \in Flushes : g # h => Range(todo[g])' \cap Range(todo[h])' = {}
    <2>1. \A g \in Flushes : Range(todo[g]) \subseteq InFlushes
      BY DEF InFlushes
    <2> QED
      BY <2>1, <1>5 DEF Inv, OnePlace
  <1>8. FlushState'
    <2> SUFFICES ASSUME NEW g \in Flushes PROVE FlushKnows(g)'
      BY DEF FlushState
    <2>1. CASE g = f
      BY <2>1, <1>1 DEF FlushKnows, Inv, TypeOK
    <2>2. CASE g # f
      BY <2>2, <1>4, FlushFrame DEF Inv
    <2> QED
      BY <2>1, <2>2
  <1> QED
    BY <1>2, <1>3, <1>5, <1>6, <1>7, <1>8

(* Collecting a request, and flushing a full batch, preserve the           *)
(* invariant.                                                              *)
LEMMA BatchProcessorRecvInv ==
    ASSUME Inv, BatchProcessorRecv
    PROVE  Inv'
  <1> DEFINE h == Head(queue)
             collected == Append(batch, h)
  <1>1. /\ UNCHANGED <<pc, arg, result, permits, tx, snapshot, locks, inserted,
                       rows, lookup, version_cache>>
        /\ queue # <<>> /\ queue' = Tail(queue)
    BY DEF BatchProcessorRecv, callVars, txVars, cacheVars
  <1>2. Holders' = Holders /\ InFlight' = InFlight
    BY <1>1 DEF Holders, InFlight
  <1>3. /\ h \in Requests
        /\ queue' \in Seq(Requests)
        /\ Range(queue) = {h} \cup Range(queue')
        /\ IsInjective(queue')
        /\ h \notin Range(queue')
    BY <1>1, HeadTailFacts DEF Inv, TypeOK, OnePlace
  <1>4. /\ h \notin Range(batch)
        /\ h \notin InFlushes
        /\ \A f \in Flushes : h \notin Range(todo[f])
    BY <1>3 DEF Inv, OnePlace, InFlushes
  <1>5. /\ collected \in Seq(Requests)
        /\ Range(collected) = Range(batch) \cup {h}
        /\ IsInjective(collected)
    BY <1>3, <1>4, AppendFacts DEF Inv, TypeOK, OnePlace
  <1>6. PermitAccounting' /\ TableState' /\ VersionsMatch' /\ NoSaveSucceeds'
    BY <1>1, <1>2, CountFrame, TableFrame DEF Inv, NoSaveSucceeds
  <1>7. Range(collected) \cap InFlushes = {}
    BY <1>4, <1>5 DEF Inv, OnePlace, InFlushes
  <1>8. CASE Spawn(collected) /\ batch' = <<>>
    <2>1. /\ fpc' \in [Flushes -> FlushStages]
          /\ todo' \in [Flushes -> Seq(Requests)]
          /\ InFlushes' = InFlushes \cup Range(collected)
          /\ \A f \in Flushes :
                IsInjective(todo[f])' /\ Range(todo[f])' \subseteq Range(todo[f]) \cup Range(collected)
          /\ \A f, g \in Flushes : f # g => Range(todo[f])' \cap Range(todo[g])' = {}
          /\ FlushState'
      BY <1>1, <1>5, <1>7, <1>8, SpawnFacts, ZenonT(30)
    <2>2. batch' \in Seq(Requests) /\ Range(batch') = {} /\ IsInjective(batch')
      BY <1>8, EmptyFacts
    <2>3. TypeOK'
      <3>1. TypeOK
        BY DEF Inv
      <3>2. queue' \in Seq(Requests) /\ batch' \in Seq(Requests)
        BY <1>3, <2>2
      <3>3. fpc' \in [Flushes -> FlushStages] /\ todo' \in [Flushes -> Seq(Requests)]
        BY <2>1
      <3> QED
        BY <1>1, <3>1, <3>2, <3>3 DEF TypeOK
    <2>4. OnePlace'
      BY <1>2, <1>3, <1>4, <1>5, <2>1, <2>2 DEF Inv, OnePlace
    <2> QED
      BY <1>6, <2>1, <2>3, <2>4 DEF Inv
  <1>9. CASE batch' = collected /\ UNCHANGED <<fpc, todo>>
    <2>1. TypeOK'
      <3>1. TypeOK
        BY DEF Inv
      <3>2. queue' \in Seq(Requests) /\ batch' \in Seq(Requests)
        BY <1>3, <1>5, <1>9
      <3> QED
        BY <1>1, <1>9, <3>1, <3>2 DEF TypeOK
    <2>2. UNCHANGED <<todo, InFlushes>>
      BY <1>9 DEF InFlushes
    <2>3. /\ Range(batch') = Range(batch) \cup {h}
          /\ IsInjective(batch')
      BY <1>5, <1>9
    <2>5. OnePlace'
      BY <1>2, <1>3, <1>4, <2>2, <2>3, ZenonT(30) DEF Inv, OnePlace
    <2>4. FlushState'
      BY <1>1, <1>9, FlushFrame DEF Inv, FlushState
    <2> QED
      BY <1>6, <2>1, <2>5, <2>4 DEF Inv
  <1> QED
    BY <1>8, <1>9 DEF BatchProcessorRecv

(* Flushing a batch when the timer fires preserves the invariant.          *)
LEMMA BatchProcessorTimeoutInv ==
    ASSUME Inv, BatchProcessorTimeout
    PROVE  Inv'
  <1>1. /\ UNCHANGED <<pc, arg, result, permits, queue, tx, snapshot, locks,
                       inserted, rows, lookup, version_cache>>
        /\ Spawn(batch) /\ batch' = <<>>
    BY DEF BatchProcessorTimeout, callVars, txVars, cacheVars
  <1>2. Holders' = Holders /\ InFlight' = InFlight
    BY <1>1 DEF Holders, InFlight
  <1>3. PermitAccounting' /\ TableState' /\ VersionsMatch' /\ NoSaveSucceeds'
    BY <1>1, <1>2, CountFrame, TableFrame DEF Inv, NoSaveSucceeds
  <1>4. batch \in Seq(Requests) /\ IsInjective(batch) /\ Range(batch) \cap InFlushes = {}
    BY DEF Inv, TypeOK, OnePlace, InFlushes
  <1>5. /\ fpc' \in [Flushes -> FlushStages]
        /\ todo' \in [Flushes -> Seq(Requests)]
        /\ InFlushes' = InFlushes \cup Range(batch)
        /\ \A f \in Flushes :
              IsInjective(todo[f])' /\ Range(todo[f])' \subseteq Range(todo[f]) \cup Range(batch)
        /\ \A f, g \in Flushes : f # g => Range(todo[f])' \cap Range(todo[g])' = {}
        /\ FlushState'
    BY <1>1, <1>4, SpawnFacts, ZenonT(30)
  <1>6. batch' \in Seq(Requests) /\ Range(batch') = {} /\ IsInjective(batch')
    BY <1>1, EmptyFacts
  <1>7. TypeOK'
    BY <1>1, <1>5, <1>6 DEF Inv, TypeOK
  <1>8. OnePlace'
    BY <1>1, <1>2, <1>5, <1>6 DEF Inv, OnePlace
  <1> QED
    BY <1>3, <1>5, <1>7, <1>8 DEF Inv

(***************************************************************************)
(* flush_batch                                                             *)
(***************************************************************************)
(* The part of the invariant about requests and where they are ...         *)
FlowOK ==
    /\ pc \in [Requests -> CallStages]
    /\ arg \in [Requests -> UNION Range(CallsOf)]
    /\ result \in [Requests -> Results]
    /\ fpc \in [Flushes -> FlushStages]
    /\ todo \in [Flushes -> Seq(Requests)]
    /\ PermitAccounting /\ OnePlace /\ FlushState /\ NoSaveSucceeds

(* ... and the part about transactions, the table and the cache.           *)
TxOK ==
    /\ tx \in [Flushes -> TxStates]
    /\ snapshot \in [Flushes -> [Aggregates -> SUBSET Nat]]
    /\ locks \in [Flushes -> SUBSET (Aggregates \X Nat)]
    /\ lookup \subseteq Aggregates \X Nat
    /\ version_cache \subseteq Aggregates \X Nat
    /\ TableState /\ VersionsMatch

(* The two parts are the invariant.                                        *)
LEMMA InvParts ==
    ASSUME Inv, FlowOK', TxOK', UNCHANGED <<permits, queue, batch>>
    PROVE  Inv'
  <1>1. rows' \in [Aggregates -> SUBSET Nat]
    BY EventStoreAssumption DEF TxOK, TableState
  <1>2. inserted' \in [Flushes -> SUBSET (Aggregates \X Nat)]
    BY DEF TxOK, TableState
  <1>3. TypeOK'
    BY <1>1, <1>2 DEF Inv, TypeOK, FlowOK, TxOK
  <1> QED
    BY <1>3 DEF Inv, FlowOK, TxOK

(* What an error answer does: the request leaves the flush, and nothing    *)
(* that belongs to another request or another flush moves.                 *)
LEMMA ReplyFacts ==
    ASSUME Inv, NEW f \in Flushes, todo[f] # <<>>, NEW res \in Errors,
           Reply(f, res), UNCHANGED <<permits, queue, batch, rows>>
    PROVE  FlowOK'
  <1> DEFINE r == Entry(f)
  <1>1. /\ r \in Requests /\ r \in InFlight /\ r \in Range(todo[f])
        /\ \A g \in Flushes : g # f => r \notin Range(todo[g])
        /\ Tail(todo[f]) \in Seq(Requests)
        /\ Range(todo[f]) = {r} \cup Range(Tail(todo[f]))
        /\ IsInjective(Tail(todo[f]))
        /\ r \notin Range(Tail(todo[f]))
    BY EntryFacts DEF Inv
  <1>2. pc[r] \in {"wait", "orphan"}
    BY <1>1 DEF InFlight
  <1>3. /\ pc' = [pc EXCEPT ![r] = AfterReply(r)]
        /\ result' = [result EXCEPT ![r] = IF pc[r] = "wait" THEN res ELSE @]
        /\ arg' = [arg EXCEPT ![r] = IF pc[r] = "orphan" THEN NoCall(r) ELSE @]
        /\ todo' = [todo EXCEPT ![f] = Tail(@)]
        /\ fpc' = [fpc EXCEPT ![f] = "entry"]
    BY DEF Reply
  <1> HIDE DEF r
  <1>4. pc' \in [Requests -> CallStages]
    BY <1>1, <1>3 DEF Inv, TypeOK, CallStages, AfterReply
  <1>5. /\ arg' \in [Requests -> UNION Range(CallsOf)]
        /\ \A q \in Requests : q # r => arg'[q] = arg[q]
    BY <1>1, <1>3, NoCallType DEF Inv, TypeOK
  <1>6. result' \in [Requests -> Results] /\ NoSaveSucceeds'
    BY <1>1, <1>3 DEF Inv, TypeOK, NoSaveSucceeds, Results, Errors
  <1>7. fpc' \in [Flushes -> FlushStages] /\ todo' \in [Flushes -> Seq(Requests)]
    BY <1>1, <1>3 DEF Inv, TypeOK, FlushStages
  <1>8. Holders' = Holders
    BY <1>1, <1>2, <1>3 DEF Inv, TypeOK, Holders, AfterReply
  <1>9. InFlight' = InFlight \ {r}
    BY <1>1, <1>2, <1>3 DEF Inv, TypeOK, InFlight, AfterReply
  <1>10. /\ todo'[f] = Tail(todo[f]) /\ fpc'[f] = "entry"
         /\ \A g \in Flushes : g # f => todo'[g] = todo[g] /\ fpc'[g] = fpc[g]
    BY <1>3 DEF Inv, TypeOK
  <1>11. /\ \A g \in Flushes : IsInjective(todo[g])'
         /\ \A g \in Flushes : Range(todo[g])' = Range(todo[g]) \ {r}
    BY <1>1, <1>10 DEF Inv, OnePlace
  <1>12. InFlushes' = InFlushes \ {r}
    <2>1. \A x : x \in InFlushes <=> \E g \in Flushes : x \in Range(todo[g])
      BY DEF InFlushes
    <2>2. \A x : x \in InFlushes' <=> \E g \in Flushes : x \in Range(todo[g])'
      BY DEF InFlushes
    <2>3. \A x : \A g \in Flushes :
            x \in Range(todo[g])' <=> x \in Range(todo[g]) /\ x # r
      BY <1>11
    <2>4. \A x : x \in InFlushes' <=> x \in InFlushes /\ x # r
      BY <2>1, <2>2, <2>3
    <2> QED
      BY <2>4
  <1>13. r \notin Range(queue) /\ r \notin Range(batch)
    BY <1>1 DEF Inv, OnePlace
  <1>14. OnePlace'
    BY <1>9, <1>11, <1>12, <1>13, ZenonT(30) DEF Inv, OnePlace
  <1>15. FlushState'
    <2> SUFFICES ASSUME NEW g \in Flushes PROVE FlushKnows(g)'
      BY DEF FlushState
    <2>1. CASE g = f
      BY <2>1, <1>10 DEF FlushKnows
    <2>2. CASE g # f
      <3>1. todo[g] # <<>> => Entry(g) # r /\ Entry(g) \in Requests
        BY <2>2, <1>1, EntryFacts DEF Inv
      <3> QED
        BY <3>1, <2>2, <1>5, <1>10, FlushFrame DEF Inv
    <2> QED
      BY <2>1, <2>2
  <1> QED
    BY <1>4, <1>5, <1>6, <1>7, <1>8, <1>14, <1>15, CountFrame DEF FlowOK

(* A flush that goes on without answering: only its own stage moves.       *)
LEMMA MoveFacts ==
    ASSUME Inv, NEW f \in Flushes, NEW to \in FlushStages,
           fpc' = [fpc EXCEPT ![f] = to], FlushKnows(f)',
           UNCHANGED <<pc, arg, result, todo, permits, queue, batch, rows>>
    PROVE  FlowOK'
  <1>1. Holders' = Holders /\ InFlight' = InFlight /\ InFlushes' = InFlushes
    BY DEF Holders, InFlight, InFlushes
  <1>2. OnePlace'
    BY <1>1 DEF Inv, OnePlace
  <1>3. FlushState'
    <2> SUFFICES ASSUME NEW g \in Flushes, g # f PROVE FlushKnows(g)'
      BY DEF FlushState
    <2>1. fpc'[g] = fpc[g]
      BY DEF Inv, TypeOK
    <2> QED
      BY <2>1, FlushFrame DEF Inv
  <1>4. NoSaveSucceeds'
    BY DEF Inv, NoSaveSucceeds
  <1> QED
    BY <1>1, <1>2, <1>3, <1>4, CountFrame DEF Inv, TypeOK, FlowOK, FlushStages

(* A transaction with no inserted rows reads what its snapshot holds and   *)
(* is checked against the table.                                           *)
LEMMA NoOwnRows ==
    ASSUME TableState, NEW f \in Flushes
    PROVE  \A a : Own(f, a) = {} /\ Visible(f, a) = snapshot[f][a] /\ Stored(f, a) = rows[a]
  BY DEF TableState, Own, Visible, Stored

(* An aborted transaction has no snapshot, no locks and no rows.           *)
LEMMA AbortFacts ==
    ASSUME Inv, NEW f \in Flushes, Abort(f), UNCHANGED <<rows, lookup>>,
           version_cache' \subseteq version_cache
    PROVE  TxOK'
  <1>1. /\ tx' \in [Flushes -> TxStates]
        /\ locks' \in [Flushes -> SUBSET (Aggregates \X Nat)]
        /\ snapshot' \in [Flushes -> [Aggregates -> SUBSET Nat]]
    BY DEF Abort, Inv, TypeOK, TxStates, NoRows
  <1>2. TableState'
    BY ZenonT(30) DEF Abort, Inv, TypeOK, TableState, NoRows
  <1>3. VersionsMatch'
    BY DEF Inv, VersionsMatch, Log!IsCurrent
  <1> QED
    BY <1>1, <1>2, <1>3 DEF TxOK, Inv, TypeOK

(* Nothing about the transactions changes, but a version may be uncached.  *)
LEMMA TxFrame ==
    ASSUME Inv, UNCHANGED <<tx, snapshot, inserted, rows, lookup>>,
           locks' \in [Flushes -> SUBSET (Aggregates \X Nat)],
           version_cache' \subseteq version_cache
    PROVE  TxOK'
  <1>1. TableState'
    BY DEF Inv, TableState
  <1>2. VersionsMatch'
    BY DEF Inv, VersionsMatch, Log!IsCurrent
  <1> QED
    BY <1>1, <1>2 DEF TxOK, Inv, TypeOK

(* Beginning a transaction preserves the invariant.                        *)
LEMMA FlushBeginInv ==
    ASSUME Inv, NEW f \in Flushes, FlushBegin(f)
    PROVE  Inv'
  <1> USE DEF FlushBegin, callVars, processorVars, cacheVars
  <1>1. FlushKnows(f)'
    BY DEF FlushKnows, Inv, TypeOK
  <1>2. FlowOK'
    BY <1>1, MoveFacts, ZenonT(30) DEF FlushStages
  <1>3. tx' \in [Flushes -> TxStates]
    BY DEF Inv, TypeOK, TxStates
  <1>4. TableState' /\ VersionsMatch'
    BY TableFrame DEF Inv
  <1>5. TxOK'
    BY <1>3, <1>4 DEF TxOK, Inv, TypeOK
  <1> QED
    BY <1>2, <1>5, InvParts

(* A failed begin answers the whole batch at once and preserves the        *)
(* invariant.                                                              *)
LEMMA FlushBeginFailsInv ==
    ASSUME Inv, NEW f \in Flushes, FlushBeginFails(f)
    PROVE  Inv'
  <1> DEFINE E == Range(todo[f])
  <1>1. /\ fpc' = [fpc EXCEPT ![f] = "idle"]
        /\ todo' = [todo EXCEPT ![f] = <<>>]
        /\ pc' = [r \in Requests |-> IF r \in E THEN AfterReply(r) ELSE pc[r]]
        /\ result' = [r \in Requests |->
                         IF r \in E /\ pc[r] = "wait" THEN "dropped" ELSE result[r]]
        /\ arg' = [r \in Requests |->
                      IF r \in E /\ pc[r] = "orphan" THEN NoCall(r) ELSE arg[r]]
        /\ UNCHANGED <<permits, queue, batch, tx, snapshot, locks, inserted,
                       rows, lookup, version_cache>>
    BY DEF FlushBeginFails, Range, processorVars, txVars, cacheVars
  <1>2. \A r \in E : r \in Requests /\ pc[r] \in {"wait", "orphan"}
    BY DEF Inv, OnePlace, InFlushes, InFlight
  <1>3. /\ \A r \in E : r \notin Range(queue) /\ r \notin Range(batch)
        /\ \A g \in Flushes : g # f => Range(todo[g]) \cap E = {}
    BY DEF Inv, OnePlace
  <1> HIDE DEF E
  <1>4. pc' \in [Requests -> CallStages] /\ result' \in [Requests -> Results]
    BY <1>1 DEF Inv, TypeOK, CallStages, AfterReply, Results, Errors
  <1>5. arg' \in [Requests -> UNION Range(CallsOf)]
    BY <1>1, NoCallType DEF Inv, TypeOK
  <1>6. fpc' \in [Flushes -> FlushStages] /\ todo' \in [Flushes -> Seq(Requests)]
    BY <1>1, EmptyFacts DEF Inv, TypeOK, FlushStages
  <1>7. NoSaveSucceeds'
    BY <1>1 DEF Inv, NoSaveSucceeds
  <1>8. Holders' = Holders /\ InFlight' = InFlight \ E
    BY <1>1, <1>2 DEF Holders, InFlight, AfterReply, Inv, TypeOK
  <1>9. /\ todo'[f] = <<>> /\ fpc'[f] = "idle"
        /\ \A g \in Flushes : g # f => todo'[g] = todo[g] /\ fpc'[g] = fpc[g]
    BY <1>1 DEF Inv, TypeOK
  <1>10. /\ \A g \in Flushes : IsInjective(todo[g])'
         /\ \A g \in Flushes : Range(todo[g])' = Range(todo[g]) \ E
    BY <1>3, <1>9, EmptyFacts DEF Inv, OnePlace, E
  <1>11. InFlushes' = InFlushes \ E
    <2>1. \A x : x \in InFlushes <=> \E g \in Flushes : x \in Range(todo[g])
      BY DEF InFlushes
    <2>2. \A x : x \in InFlushes' <=> \E g \in Flushes : x \in Range(todo[g])'
      BY DEF InFlushes
    <2>3. \A x : \A g \in Flushes :
            x \in Range(todo[g])' <=> x \in Range(todo[g]) /\ x \notin E
      BY <1>10
    <2>4. \A x : x \in InFlushes' <=> x \in InFlushes /\ x \notin E
      BY <2>1, <2>2, <2>3
    <2> QED
      BY <2>4
  <1>12. OnePlace'
    <2>1. queue' = queue /\ batch' = batch
      BY <1>1
    <2>2. /\ IsInjective(queue) /\ IsInjective(batch)
          /\ Range(queue) \cap Range(batch) = {}
          /\ \A g \in Flushes : Range(todo[g]) \cap (Range(queue) \cup Range(batch)) = {}
          /\ \A g, h \in Flushes : g # h => Range(todo[g]) \cap Range(todo[h]) = {}
          /\ Range(queue) \cup Range(batch) \cup InFlushes = InFlight
      BY DEF Inv, OnePlace
    <2>3. \A g \in Flushes : Range(todo[g])' \cap (Range(queue) \cup Range(batch)) = {}
      BY <1>10, <2>2
    <2>4. \A g, h \in Flushes : g # h => Range(todo[g])' \cap Range(todo[h])' = {}
      BY <1>10, <2>2
    <2>5. Range(queue) \cup Range(batch) \cup InFlushes' = InFlight'
      BY <1>3, <1>8, <1>11, <2>2
    <2> QED
      BY <1>10, <2>1, <2>2, <2>3, <2>4, <2>5 DEF OnePlace
  <1>13. FlushState'
    <2> SUFFICES ASSUME NEW g \in Flushes PROVE FlushKnows(g)'
      BY DEF FlushState
    <2>1. CASE g = f
      BY <2>1, <1>9 DEF FlushKnows
    <2>2. CASE g # f
      <3>1. todo[g] # <<>> => Entry(g) \notin E /\ Entry(g) \in Requests
        BY <2>2, <1>3, EntryFacts DEF Inv
      <3> QED
        BY <3>1, <2>2, <1>1, <1>9, FlushFrame DEF Inv
    <2> QED
      BY <2>1, <2>2
  <1>14. FlowOK'
    BY <1>1, <1>4, <1>5, <1>6, <1>7, <1>8, <1>12, <1>13, CountFrame DEF FlowOK
  <1>15. TxOK'
    BY <1>1, TxFrame DEF Inv, TypeOK
  <1> QED
    BY <1>1, <1>14, <1>15, InvParts

(* Validating an entry and opening its query preserve the invariant.       *)
LEMMA FlushEntryInv ==
    ASSUME Inv, NEW f \in Flushes, FlushEntry(f)
    PROVE  Inv'
  <1>1. /\ todo[f] # <<>>
        /\ UNCHANGED <<permits, queue, batch, locks, inserted, rows, lookup,
                       version_cache>>
    BY ZenonT(30) DEF FlushEntry, processorVars, cacheVars
  <1>2. ASSUME NEW res \in Errors, Reply(f, res), UNCHANGED <<tx, snapshot>>
        PROVE  Inv'
    <2>1. FlowOK'
      BY <1>1, <1>2, ReplyFacts
    <2>2. TxOK'
      BY <1>1, <1>2, TxFrame DEF Inv, TypeOK
    <2> QED
      BY <1>1, <2>1, <2>2, InvParts
  <1>3. CASE /\ fpc' = [fpc EXCEPT ![f] = "select"]
             /\ tx' = [tx EXCEPT ![f] = "open"]
             /\ snapshot' = [snapshot EXCEPT ![f] = IF tx[f] = "begun" THEN rows ELSE @]
             /\ UNCHANGED <<pc, arg, result, todo>>
    <2>1. FlushKnows(f)'
      BY <1>1, <1>3 DEF FlushKnows, Inv, TypeOK
    <2>2. FlowOK'
      BY <1>1, <1>3, <2>1, MoveFacts, ZenonT(30) DEF FlushStages
    <2>3. /\ tx' \in [Flushes -> TxStates]
          /\ snapshot' \in [Flushes -> [Aggregates -> SUBSET Nat]]
      BY <1>3 DEF Inv, TypeOK, TxStates
    <2>4. TableState'
      BY <1>1, <1>3 DEF Inv, TypeOK, TableState
    <2>5. VersionsMatch'
      BY <1>1 DEF Inv, VersionsMatch, Log!IsCurrent
    <2>6. TxOK'
      BY <1>1, <2>3, <2>4, <2>5 DEF TxOK, Inv, TypeOK
    <2> QED
      BY <1>1, <2>2, <2>6, InvParts
  <1> QED
    BY <1>2, <1>3 DEF FlushEntry, Errors, callVars

(* Locking the last row and testing the versions preserve the invariant:   *)
(* the entry goes on to its INSERT only if its one event repeats a stored  *)
(* version.                                                                *)
LEMMA FlushSelectInv ==
    ASSUME Inv, NEW f \in Flushes, FlushSelect(f)
    PROVE  Inv'
  <1> DEFINE a == Agg(f)
             r == Entry(f)
  <1>1. /\ fpc[f] = "select"
        /\ UNCHANGED <<permits, queue, batch, tx, snapshot, inserted, rows, lookup>>
    BY DEF FlushSelect, processorVars
  <1>2. todo[f] # <<>> /\ r \in Requests
    BY <1>1, EntryFacts DEF Inv, FlushState, FlushKnows
  <1>3. /\ a \in Aggregates
        /\ arg[r].expected \in Int /\ arg[r].count \in Nat \ {0}
    BY <1>2, CallType DEF Inv, TypeOK, Agg
  <1>4. Uncache(a) \subseteq version_cache
    BY DEF Uncache
  <1>5. ASSUME NEW res \in Errors, Reply(f, res),
               locks' \in [Flushes -> SUBSET (Aggregates \X Nat)],
               version_cache' \subseteq version_cache
        PROVE  Inv'
    <2>1. FlowOK'
      BY <1>1, <1>2, <1>5, ReplyFacts
    <2>2. TxOK'
      BY <1>1, <1>5, TxFrame
    <2> QED
      BY <1>1, <2>1, <2>2, InvParts
  <1>6. CASE NoRow(f)
    BY <1>5, <1>6 DEF NoRow, Errors, Inv, TypeOK
  <1>7. ASSUME NEW v \in Visible(f, a), LastRow(f, v),
               VersionConflict(f, v) \/ VersionMatch(f, v)
        PROVE  Inv'
    <2>1. v \in rows[a] /\ v \in Nat
      BY <1>3, <1>7, NoOwnRows DEF Inv, TypeOK, TableState
    <2>2. locks' \in [Flushes -> SUBSET (Aggregates \X Nat)]
      BY <1>3, <1>7, <2>1 DEF LastRow, Inv, TypeOK
    <2>3. CASE VersionConflict(f, v)
      BY <2>2, <2>3, <1>4, <1>5 DEF VersionConflict, Errors
    <2>4. CASE VersionMatch(f, v) /\ ~SequenceAccepted(r)
      BY <2>2, <2>4, <1>5 DEF VersionMatch, Errors
    <2>5. CASE VersionMatch(f, v) /\ SequenceAccepted(r)
      <3>1. arg[r].count = 1
        <4>1. SUFFICES ASSUME arg[r].count > 1 PROVE FALSE
          BY <1>3
        <4>2. 0 \in 0 .. arg[r].count - 1
          BY <4>1, <1>3
        <4>3. FirstVersion(r) + 0 = FirstVersion(r) + 0 + 1
          BY <4>1, <4>2, <2>5 DEF SequenceAccepted
        <4> QED
          BY <4>3, <1>3 DEF FirstVersion
      <3>2. /\ fpc' = [fpc EXCEPT ![f] = "insert"]
            /\ UNCHANGED <<pc, arg, result, todo, version_cache>>
            /\ v = FirstVersion(r)
        BY <2>5 DEF VersionMatch, callVars
      <3>3. FlushKnows(f)'
        BY <1>1, <1>2, <2>1, <3>1, <3>2 DEF FlushKnows, Entry, Agg, FirstVersion, Inv, TypeOK
      <3>4. FlowOK'
        BY <1>1, <3>2, <3>3, MoveFacts, ZenonT(30) DEF FlushStages
      <3>5. TxOK'
        BY <1>1, <2>2, <3>2, TxFrame
      <3> QED
        BY <1>1, <3>4, <3>5, InvParts
    <2> QED
      BY <1>7, <2>3, <2>4, <2>5
  <1> QED
    BY <1>6, <1>7 DEF FlushSelect

(* A failed query preserves the invariant.                                 *)
LEMMA FlushSelectFailsInv ==
    ASSUME Inv, NEW f \in Flushes, FlushSelectFails(f)
    PROVE  Inv'
  <1>1. UNCHANGED <<permits, queue, batch, rows, lookup, version_cache>>
    BY DEF FlushSelectFails, processorVars, cacheVars
  <1>2. todo[f] # <<>>
    BY DEF FlushSelectFails, Inv, FlushState, FlushKnows
  <1>3. FlowOK'
    BY <1>1, <1>2, ReplyFacts DEF FlushSelectFails, Errors
  <1>4. TxOK'
    BY <1>1, AbortFacts DEF FlushSelectFails
  <1> QED
    BY <1>1, <1>3, <1>4, InvParts

(* The event of an entry that reached its INSERT repeats a stored version. *)
LEMMA InsertRepeats ==
    ASSUME Inv, NEW f \in Flushes, fpc[f] = "insert"
    PROVE  NewVersions(Entry(f)) \cap Stored(f, Agg(f)) # {}
  <1> DEFINE r == Entry(f)
  <1>1. r \in Requests
    BY EntryFacts DEF Inv, FlushState, FlushKnows
  <1>2. arg[r].expected \in Int
    BY <1>1, CallType DEF Inv, TypeOK
  <1>3. arg[r].count = 1 /\ FirstVersion(r) \in rows[Agg(f)]
    BY DEF Inv, FlushState, FlushKnows
  <1>4. FirstVersion(r) \in NewVersions(r)
    BY <1>2, <1>3 DEF NewVersions, FirstVersion, LastVersion
  <1> QED
    BY <1>3, <1>4, NoOwnRows DEF Inv

(* The INSERT always violates the unique constraint, which preserves the   *)
(* invariant.                                                              *)
LEMMA FlushInsertInv ==
    ASSUME Inv, NEW f \in Flushes, FlushInsert(f)
    PROVE  Inv'
  <1> DEFINE r == Entry(f)
             a == Agg(f)
  <1>1. /\ fpc[f] = "insert"
        /\ UNCHANGED <<permits, queue, batch, rows, lookup>>
    BY DEF FlushInsert, processorVars
  <1>2. todo[f] # <<>>
    BY <1>1 DEF Inv, FlushState, FlushKnows
  <1>3. PICK res \in {"conflict", "database"} :
          /\ Reply(f, res)
          /\ version_cache' = CASE res = "ok" -> Uncache(a) \cup {<<a, LastVersion(r)>>}
                                [] res = "conflict" -> Uncache(a)
                                [] res = "database" -> version_cache
          /\ Abort(f)
    BY <1>1, InsertRepeats DEF FlushInsert, InsertResults
  <1>4. version_cache' \subseteq version_cache
    BY <1>3 DEF Uncache
  <1>5. FlowOK'
    BY <1>1, <1>2, <1>3, ReplyFacts DEF Errors
  <1>6. TxOK'
    BY <1>1, <1>3, <1>4, AbortFacts
  <1> QED
    BY <1>1, <1>5, <1>6, InvParts

(* An INSERT that fails, and is retried or not, preserves the invariant.   *)
LEMMA FlushInsertFailsInv ==
    ASSUME Inv, NEW f \in Flushes, FlushInsertFails(f)
    PROVE  Inv'
  <1>1. /\ fpc[f] = "insert" /\ Abort(f)
        /\ UNCHANGED <<permits, queue, batch, rows, lookup, version_cache>>
    BY DEF FlushInsertFails, processorVars, cacheVars
  <1>2. todo[f] # <<>>
    BY <1>1 DEF Inv, FlushState, FlushKnows
  <1>3. TxOK'
    BY <1>1, AbortFacts
  <1>4. CASE Reply(f, "database")
    <2>1. FlowOK'
      BY <1>1, <1>2, <1>4, ReplyFacts DEF Errors
    <2> QED
      BY <1>1, <1>3, <2>1, InvParts
  <1>5. CASE fpc' = [fpc EXCEPT ![f] = "select"] /\ UNCHANGED <<pc, arg, result, todo>>
    <2>1. FlushKnows(f)'
      BY <1>2, <1>5 DEF FlushKnows, Inv, TypeOK
    <2>2. FlowOK'
      BY <1>1, <1>5, <2>1, MoveFacts, ZenonT(30) DEF FlushStages
    <2> QED
      BY <1>1, <1>3, <2>2, InvParts
  <1> QED
    BY <1>4, <1>5 DEF FlushInsertFails, callVars

(* The end of a flush, committed or rolled back, preserves the invariant.  *)
LEMMA EndFlushInv ==
    ASSUME Inv, NEW f \in Flushes, EndFlush(f), rows' = rows
    PROVE  Inv'
  <1>1. /\ fpc' = [fpc EXCEPT ![f] = "idle"]
        /\ todo[f] = <<>>
        /\ UNCHANGED <<pc, arg, result, permits, queue, batch, todo, lookup,
                       version_cache>>
    BY DEF EndFlush, callVars, processorVars, cacheVars
  <1>2. FlushKnows(f)'
    BY <1>1 DEF FlushKnows, Inv, TypeOK
  <1>3. FlowOK'
    BY <1>1, <1>2, MoveFacts, ZenonT(30) DEF FlushStages
  <1>4. /\ tx' \in [Flushes -> TxStates]
        /\ locks' \in [Flushes -> SUBSET (Aggregates \X Nat)]
        /\ snapshot' \in [Flushes -> [Aggregates -> SUBSET Nat]]
    BY DEF EndFlush, Inv, TypeOK, TxStates, NoRows
  <1>5. TableState'
    BY ZenonT(30) DEF EndFlush, Inv, TypeOK, TableState, NoRows
  <1>6. VersionsMatch'
    BY <1>1, ZenonT(30) DEF Inv, VersionsMatch, Log!IsCurrent
  <1>7. TxOK'
    BY <1>1, <1>4, <1>5, <1>6, ZenonT(30) DEF TxOK, Inv, TypeOK
  <1> QED
    BY <1>1, <1>3, <1>7, InvParts

(* A commit writes no row, because no transaction has one to write.        *)
LEMMA CommitWritesNothing ==
    ASSUME Inv, NEW f \in Flushes, FlushCommit(f)
    PROVE  rows' = rows
  <1>1. \A a : Stored(f, a) = rows[a]
    BY NoOwnRows DEF Inv
  <1> QED
    BY <1>1 DEF FlushCommit, Inv, TypeOK

(* get_current_version preserves the invariant.                            *)
LEMMA LookupInv ==
    ASSUME Inv, NEW a \in Lookups, QueryCurrentVersion(a) \/ CacheCurrentVersion(a)
    PROVE  Inv'
  <1>1. UNCHANGED <<pc, arg, result, permits, queue, batch, fpc, todo, tx,
                    snapshot, locks, inserted, rows>>
    BY DEF QueryCurrentVersion, CacheCurrentVersion, callVars, processorVars, txVars
  <1>2. FlowOK'
    <2>1. Holders' = Holders /\ InFlight' = InFlight /\ InFlushes' = InFlushes
      BY <1>1 DEF Holders, InFlight, InFlushes
    <2>2. PermitAccounting' /\ OnePlace' /\ NoSaveSucceeds'
      BY <1>1, <2>1 DEF Inv, PermitAccounting, OnePlace, NoSaveSucceeds
    <2>3. FlushState'
      BY <1>1, FlushFrame, ZenonT(30) DEF Inv, FlushState
    <2> QED
      BY <1>1, <2>2, <2>3 DEF FlowOK, Inv, TypeOK
  <1>3. a \in Aggregates
    BY EventStoreAssumption
  <1>4. /\ lookup' \subseteq Aggregates \X Nat /\ version_cache' \subseteq Aggregates \X Nat
        /\ \A p \in lookup' \cup version_cache' :
              p \in lookup \cup version_cache \/ (p[1] = a /\ Log!IsCurrent(rows[a], p[2]))
    <2>1. CASE QueryCurrentVersion(a)
      BY <1>3, <2>1, SMTT(40) DEF QueryCurrentVersion, Latest, Log!IsCurrent, Inv, TypeOK
    <2>2. CASE CacheCurrentVersion(a)
      BY <2>2 DEF CacheCurrentVersion, Uncache, Inv, TypeOK
    <2> QED
      BY <2>1, <2>2
  <1>5. VersionsMatch'
    BY <1>1, <1>4, ZenonT(30) DEF Inv, VersionsMatch, Log!IsCurrent
  <1>6. TxOK'
    BY <1>1, <1>4, <1>5 DEF TxOK, Inv, TypeOK, TableState
  <1> QED
    BY <1>1, <1>2, <1>6, InvParts

(***************************************************************************)
(* The theorems                                                            *)
(***************************************************************************)
(* Every step preserves the invariant.                                     *)
LEMMA NextInv == Inv /\ [Next]_vars => Inv'
  <1> SUFFICES ASSUME Inv, [Next]_vars PROVE Inv'
    OBVIOUS
  <1>1. ASSUME NEW r \in Requests, SaveCall(r) \/ Cancel(r) PROVE Inv'
    BY <1>1, SaveEventsInv, AcquirePermitInv, ReturnFromSaveInv, CancelInv DEF SaveCall
  <1>2. CASE BatchProcessor
    BY <1>2, BatchProcessorRecvInv, BatchProcessorTimeoutInv DEF BatchProcessor
  <1>3. ASSUME NEW f \in Flushes, FlushBatch(f) PROVE Inv'
    <2>1. FlushCommit(f) \/ FlushRollback(f) => Inv'
      BY EndFlushInv, CommitWritesNothing DEF FlushCommit, FlushRollback
    <2> QED
      BY <1>3, <2>1, FlushBeginInv, FlushBeginFailsInv, FlushEntryInv, FlushSelectInv,
         FlushSelectFailsInv, FlushInsertInv, FlushInsertFailsInv DEF FlushBatch
  <1>4. ASSUME NEW a \in Lookups, QueryCurrentVersion(a) \/ CacheCurrentVersion(a)
        PROVE  Inv'
    BY <1>4, LookupInv
  <1>5. CASE UNCHANGED vars
    <2>1. UNCHANGED <<pc, arg, result, permits, queue, batch, fpc, todo, tx,
                      snapshot, locks, inserted, rows, lookup, version_cache>>
      BY <1>5 DEF vars
    <2>2. Holders' = Holders /\ InFlight' = InFlight /\ InFlushes' = InFlushes
      BY <2>1 DEF Holders, InFlight, InFlushes
    <2>3. PermitAccounting' /\ OnePlace' /\ NoSaveSucceeds'
      BY <2>1, <2>2 DEF Inv, PermitAccounting, OnePlace, NoSaveSucceeds
    <2>4. FlushState'
      BY <2>1, FlushFrame, ZenonT(30) DEF Inv, FlushState
    <2>5. TableState' /\ VersionsMatch'
      BY <2>1, TableFrame DEF Inv
    <2>6. TypeOK'
      BY <2>1 DEF Inv, TypeOK
    <2> QED
      BY <2>3, <2>4, <2>5, <2>6 DEF Inv
  <1> QED
    BY <1>1, <1>2, <1>3, <1>4, <1>5 DEF Next

(* The invariant holds in every reachable state.                           *)
LEMMA InvHolds == Spec => []Inv
  BY InitInv, NextInv, PTL DEF Spec

(* Every variable keeps its type.                                          *)
THEOREM TypeCorrect == Spec => []TypeOK
  <1>1. Inv => TypeOK
    BY DEF Inv
  <1> QED
    BY <1>1, InvHolds, PTL

(* However calls end, the semaphore never loses a permit or gains one.     *)
THEOREM PermitsAreConserved == Spec => []PermitAccounting
  <1>1. Inv => PermitAccounting
    BY DEF Inv
  <1> QED
    BY <1>1, InvHolds, PTL

(* An admitted request is in the channel, in the batch or with one flush   *)
(* task, exactly once, until it is answered.                               *)
THEOREM RequestsAreConserved == Spec => []OnePlace
  <1>1. Inv => OnePlace
    BY DEF Inv
  <1> QED
    BY <1>1, InvHolds, PTL

(* save_events never answers Ok to a call with events.                     *)
THEOREM SavesNeverSucceed == Spec => []NoSaveSucceeds
  <1>1. Inv => NoSaveSucceeds
    BY DEF Inv
  <1> QED
    BY <1>1, InvHolds, PTL

(* version_cache agrees with the table.                                    *)
THEOREM VersionCacheIsCurrent == Spec => []CacheMatchesTable
  <1>1. Inv => CacheMatchesTable
    BY DEF Inv, VersionsMatch, CacheMatchesTable
  <1> QED
    BY <1>1, InvHolds, PTL

(* No step of the store changes the events table.                          *)
THEOREM TableNeverChanges == Spec => NothingAppended
  <1>1. Inv /\ Inv' /\ [Next]_vars => [rows' = rows]_vars
    BY ZenonT(30) DEF Inv, TableState
  <1> QED
    BY <1>1, InvHolds, PTL DEF Spec, NothingAppended

(* max_batch_queue_size bounds the requests between save_events and the    *)
(* end of their flush, but for those a disconnected client left behind.    *)
THEOREM QueueIsBounded == Spec => []QueueBound
  <1>1. Inv => QueueBound
    <2> SUFFICES ASSUME Inv PROVE QueueBound
      OBVIOUS
    <2> DEFINE Kept == {r \in Range(queue) \cup Range(batch) \cup InFlushes : pc[r] # "orphan"}
    <2>1. Kept \subseteq Holders
      BY DEF Inv, OnePlace, InFlight, Holders
    <2>2. Cardinality(Kept) =< Cardinality(Holders) /\ Cardinality(Kept) \in Nat
      BY <2>1, HoldersFinite, FS_Subset, FS_CardinalityType
    <2>3. Cardinality(Kept) =< MaxBatchQueueSize
      <3> HIDE DEF Kept
      <3> QED
        BY <2>2, HoldersFinite, EventStoreAssumption DEF Inv, TypeOK, PermitAccounting
    <2> QED
      BY <2>3 DEF QueueBound
  <1> QED
    BY <1>1, InvHolds, PTL

(***************************************************************************)
(* EventStore implements OptimisticLog: every step of the store is a step  *)
(* of the contract or invisible to callers.                                *)
(***************************************************************************)
(* A step that moves no call between the stages of the contract, and       *)
(* leaves arguments, answers and table alone, is invisible.                *)
LEMMA Invisible ==
    ASSUME \A r \in Requests : LogStage[pc'[r]] = LogStage[pc[r]],
           UNCHANGED <<arg, result, rows>>
    PROVE  UNCHANGED Log!logVars
  BY DEF Log!logVars

(* The stage of the contract a call is in.                                 *)
LEMMA StageFacts ==
    /\ LogStage["idle"] = "idle" /\ LogStage["acquire"] = "pending"
    /\ LogStage["wait"] = "pending" /\ LogStage["done"] = "answered"
    /\ LogStage["orphan"] = "abandoned"
  BY DEF LogStage

(* Error answers to a set of unanswered requests are one Refuse.           *)
LEMMA RefusesAll ==
    ASSUME NEW E \in SUBSET Requests, E # {}, NEW res \in Errors,
           \A r \in E : pc[r] \in {"wait", "orphan"},
           \A r \in Requests : pc'[r] = IF r \in E THEN AfterReply(r) ELSE pc[r],
           result' = [r \in Requests |->
                        IF r \in E /\ pc[r] = "wait" THEN res ELSE result[r]],
           arg' = [r \in Requests |->
                     IF r \in E /\ pc[r] = "orphan" THEN NoCall(r) ELSE arg[r]],
           rows' = rows, TypeOK
    PROVE  Log!LogNext
  <1>1. \A r \in E : Log!Unanswered(r)
    BY StageFacts DEF Log!Unanswered
  <1>2. \A r \in Requests :
          LogStage[pc'[r]] =
            IF r \notin E THEN LogStage[pc[r]]
            ELSE IF LogStage[pc[r]] = "pending" THEN "answered" ELSE "idle"
    BY StageFacts DEF AfterReply
  <1>3. \A r \in Requests : r \in E =>
          /\ pc[r] = "wait" <=> LogStage[pc[r]] = "pending"
          /\ pc[r] = "orphan" <=> LogStage[pc[r]] = "abandoned"
    BY StageFacts
  <1>4. \A r \in Requests : NoCall(r) = Log!NoCall(r)
    BY DEF NoCall, Log!NoCall
  <1>5. Log!Settle(E, Log!Refusals)
    <2>1. [r \in Requests |-> LogStage[pc[r]]]'
            = [r \in Requests |->
                 IF r \notin E THEN [q \in Requests |-> LogStage[pc[q]]][r]
                 ELSE IF [q \in Requests |-> LogStage[pc[q]]][r] = "pending"
                        THEN "answered" ELSE "idle"]
      BY <1>2, ZenonT(30)
    <2>2. arg' = [r \in Requests |->
                    IF r \in E /\ [q \in Requests |-> LogStage[pc[q]]][r] = "abandoned"
                      THEN Log!NoCall(r) ELSE arg[r]]
      BY <1>3, <1>4
    <2>3. res \in Log!Refusals
      BY DEF Errors, Log!Refusals
    <2>4. result' = [r \in Requests |->
                       IF r \in E /\ [q \in Requests |-> LogStage[pc[q]]][r] = "pending"
                         THEN res ELSE result[r]]
      BY <1>3
    <2> QED
      BY <1>1, <2>1, <2>2, <2>3, <2>4 DEF Log!Settle
  <1>6. Log!Refuse(E)
    BY <1>5 DEF Log!Refuse
  <1> QED
    BY <1>6 DEF Log!LogNext

(* The answer to one entry is one Refuse.                                  *)
LEMMA ReplyRefuses ==
    ASSUME Inv, NEW f \in Flushes, todo[f] # <<>>, NEW res \in Errors,
           Reply(f, res), rows' = rows
    PROVE  Log!LogNext
  <1> DEFINE e == Entry(f)
  <1>1. e \in Requests /\ pc[e] \in {"wait", "orphan"}
    BY EntryFacts DEF Inv, InFlight
  <1>2. /\ pc' = [pc EXCEPT ![e] = AfterReply(e)]
        /\ result' = [result EXCEPT ![e] = IF pc[e] = "wait" THEN res ELSE @]
        /\ arg' = [arg EXCEPT ![e] = IF pc[e] = "orphan" THEN NoCall(e) ELSE @]
    BY DEF Reply
  <1> HIDE DEF e
  <1>3. \A r \in Requests : pc'[r] = IF r \in {e} THEN AfterReply(r) ELSE pc[r]
    BY <1>1, <1>2 DEF Inv, TypeOK
  <1>4. result' = [r \in Requests |->
                     IF r \in {e} /\ pc[r] = "wait" THEN res ELSE result[r]]
    BY <1>1, <1>2, ZenonT(30) DEF Inv, TypeOK
  <1>5. arg' = [r \in Requests |->
                  IF r \in {e} /\ pc[r] = "orphan" THEN NoCall(r) ELSE arg[r]]
    BY <1>1, <1>2, ZenonT(30) DEF Inv, TypeOK
  <1> QED
    BY <1>1, <1>3, <1>4, <1>5, RefusesAll, ZenonT(30) DEF Inv

(* Starting, finishing and abandoning a call.                              *)
LEMMA CallRefines ==
    ASSUME Inv, NEW r \in Requests, SaveCall(r) \/ Cancel(r)
    PROVE  [Log!LogNext]_Log!logVars
  <1> DEFINE stage == [q \in Requests |-> LogStage[pc[q]]]
  <1>1. \A s : pc' = [pc EXCEPT ![r] = s] =>
          stage' = [stage EXCEPT ![r] = LogStage[s]]
    BY ZenonT(30) DEF Inv, TypeOK
  <1>2. stage[r] = LogStage[pc[r]] /\ NoCall(r) = Log!NoCall(r)
    BY DEF NoCall, Log!NoCall
  <1>3. /\ LogStage["idle"] = "idle" /\ LogStage["acquire"] = "pending"
        /\ LogStage["wait"] = "pending" /\ LogStage["done"] = "answered"
        /\ LogStage["orphan"] = "abandoned"
    BY StageFacts
  <1> HIDE DEF stage
  <1>4. CASE SaveEvents(r)
    <2>1. stage[r] = "idle" /\ stage' = [stage EXCEPT ![r] = "pending"]
      <3>1. pc[r] = "idle" /\ pc' = [pc EXCEPT ![r] = "acquire"]
        BY <1>4 DEF SaveEvents
      <3> QED
        BY <3>1, <1>1, <1>2, <1>3, ZenonT(30)
    <2>2. Log!Invoke(r)
      BY <1>4, <2>1, ZenonT(30) DEF SaveEvents, Log!Invoke, stage
    <2> QED
      BY <2>2 DEF Log!LogNext
  <1>5. CASE AcquirePermit(r)
    <2>1. \A q \in Requests : LogStage[pc'[q]] = LogStage[pc[q]]
      <3>1. pc[r] = "acquire" /\ pc' = [pc EXCEPT ![r] = "wait"]
        BY <1>5 DEF AcquirePermit
      <3>2. pc \in [Requests -> CallStages]
        BY DEF Inv, TypeOK
      <3> QED
        BY <3>1, <3>2, StageFacts
    <2> QED
      BY <1>5, <2>1, Invisible DEF AcquirePermit
  <1>6. CASE ReturnFromSave(r)
    <2>1. stage[r] = "answered" /\ stage' = [stage EXCEPT ![r] = "idle"]
      BY <1>1, <1>2, <1>3, <1>6, ZenonT(60) DEF ReturnFromSave
    <2>2. Log!Return(r)
      BY <1>2, <1>6, <2>1 DEF ReturnFromSave, Log!Return, stage
    <2> QED
      BY <2>2 DEF Log!LogNext
  <1>7. CASE Cancel(r) /\ pc[r] = "acquire"
    <2>1. stage[r] = "pending" /\ stage' = [stage EXCEPT ![r] = "idle"]
      BY <1>1, <1>2, <1>3, <1>7, SMTT(40) DEF Cancel
    <2>2. Log!Abandon(r)
      BY <1>2, <1>7, <2>1 DEF Cancel, Log!Abandon, stage
    <2> QED
      BY <2>2 DEF Log!LogNext
  <1>8. CASE Cancel(r) /\ pc[r] = "wait"
    <2>1. stage[r] = "pending" /\ stage' = [stage EXCEPT ![r] = "abandoned"]
      BY <1>1, <1>2, <1>3, <1>8, SMTT(40) DEF Cancel
    <2>2. Log!Abandon(r)
      BY <1>8, <2>1 DEF Cancel, Log!Abandon, stage
    <2> QED
      BY <2>2 DEF Log!LogNext
  <1> QED
    BY <1>4, <1>5, <1>6, <1>7, <1>8 DEF SaveCall, Cancel

(* The steps of a flush task.                                              *)
LEMMA FlushRefines ==
    ASSUME Inv, NEW f \in Flushes, FlushBatch(f)
    PROVE  [Log!LogNext]_Log!logVars
  <1> USE DEF callVars, processorVars, txVars, cacheVars
  <1>1. fpc[f] \in {"select", "insert"} => todo[f] # <<>>
    BY DEF Inv, FlushState, FlushKnows
  <1>2. ASSUME NEW res \in Errors, Reply(f, res), todo[f] # <<>>, rows' = rows
        PROVE  Log!LogNext
    BY <1>2, ReplyRefuses
  <1>3. ASSUME UNCHANGED <<pc, arg, result, rows>>
        PROVE  UNCHANGED Log!logVars
    BY <1>3, Invisible
  <1>4. CASE FlushBegin(f)
    BY <1>3, <1>4 DEF FlushBegin
  <1>5. CASE FlushBeginFails(f)
    <2> DEFINE E == Range(todo[f])
    <2>1. /\ pc' = [r \in Requests |-> IF r \in E THEN AfterReply(r) ELSE pc[r]]
          /\ result' = [r \in Requests |->
                           IF r \in E /\ pc[r] = "wait" THEN "dropped" ELSE result[r]]
          /\ arg' = [r \in Requests |->
                        IF r \in E /\ pc[r] = "orphan" THEN NoCall(r) ELSE arg[r]]
          /\ rows' = rows
      BY <1>5 DEF FlushBeginFails, Range
    <2>2. \A r \in E : r \in Requests /\ pc[r] \in {"wait", "orphan"}
      BY DEF Inv, OnePlace, InFlushes, InFlight
    <2> HIDE DEF E
    <2>3. CASE E = {}
      BY <1>3, <2>1, <2>3 DEF Inv, TypeOK
    <2>4. CASE E # {}
      BY <2>1, <2>2, <2>4, RefusesAll, ZenonT(30) DEF Inv, Errors
    <2> QED
      BY <2>3, <2>4
  <1>6. CASE FlushEntry(f)
    BY <1>2, <1>3, <1>6, ZenonT(30) DEF FlushEntry, Errors
  <1>7. CASE FlushSelect(f)
    <2>1. fpc[f] = "select" /\ rows' = rows
      BY <1>7 DEF FlushSelect
    <2>2. \/ \E res \in Errors : Reply(f, res)
          \/ UNCHANGED <<pc, arg, result>>
      BY <1>7 DEF FlushSelect, NoRow, VersionConflict, VersionMatch, Errors
    <2> QED
      BY <1>1, <1>2, <1>3, <2>1, <2>2
  <1>8. CASE FlushSelectFails(f)
    BY <1>1, <1>2, <1>8 DEF FlushSelectFails, Errors
  <1>9. CASE FlushInsert(f)
    <2>1. fpc[f] = "insert" /\ rows' = rows
      BY <1>9 DEF FlushInsert
    <2>2. \E res \in InsertResults(NewVersions(Entry(f)) \cap Stored(f, Agg(f)) # {}) :
            Reply(f, res)
      BY <1>9 DEF FlushInsert
    <2>3. NewVersions(Entry(f)) \cap Stored(f, Agg(f)) # {}
      BY <2>1, InsertRepeats
    <2>4. \E res \in Errors : Reply(f, res)
      BY <2>2, <2>3 DEF InsertResults, Errors
    <2> QED
      BY <1>1, <1>2, <2>1, <2>4
  <1>10. CASE FlushInsertFails(f)
    BY <1>1, <1>2, <1>3, <1>10 DEF FlushInsertFails, Errors
  <1>11. CASE FlushCommit(f) \/ FlushRollback(f)
    <2>1. rows' = rows
      BY <1>11, CommitWritesNothing DEF FlushRollback
    <2> QED
      BY <1>3, <1>11, <2>1, ZenonT(30) DEF FlushCommit, FlushRollback, EndFlush
  <1> QED
    BY <1>4, <1>5, <1>6, <1>7, <1>8, <1>9, <1>10, <1>11 DEF FlushBatch

(* Every step of the store is a step of the contract or a stutter.         *)
LEMMA StepRefines == Inv /\ [Next]_vars => [Log!LogNext]_Log!logVars
  <1> SUFFICES ASSUME Inv, [Next]_vars PROVE [Log!LogNext]_Log!logVars
    OBVIOUS
  <1>1. ASSUME NEW r \in Requests, SaveCall(r) \/ Cancel(r)
        PROVE  [Log!LogNext]_Log!logVars
    BY <1>1, CallRefines
  <1>2. CASE BatchProcessor
    BY <1>2, Invisible, ZenonT(30)
       DEF BatchProcessor, BatchProcessorRecv, BatchProcessorTimeout, callVars
  <1>3. ASSUME NEW f \in Flushes, FlushBatch(f)
        PROVE  [Log!LogNext]_Log!logVars
    BY <1>3, FlushRefines
  <1>4. ASSUME NEW a \in Lookups, QueryCurrentVersion(a) \/ CacheCurrentVersion(a)
        PROVE  [Log!LogNext]_Log!logVars
    BY <1>4, Invisible DEF QueryCurrentVersion, CacheCurrentVersion, callVars
  <1>5. CASE UNCHANGED vars
    BY <1>5, Invisible DEF vars
  <1> QED
    BY <1>1, <1>2, <1>3, <1>4, <1>5 DEF Next

(* The store implements the contract of save_events: callers see atomic,   *)
(* version-checked appends and at most one answer each, whatever batches,  *)
(* transactions and failures lie behind them.                              *)
THEOREM StoreImplementsLog == Spec => ImplementsLog
  <1>1. Init => Log!LogInit
    <2> SUFFICES ASSUME Init PROVE Log!LogInit
      OBVIOUS
    <2>1. \A r \in Requests : LogStage[pc[r]] = "idle"
      BY StageFacts DEF Init
    <2> QED
      BY <2>1 DEF Init, Log!LogInit, NoCall, Log!NoCall
  <1> QED
    BY <1>1, StepRefines, InvHolds, PTL DEF Spec, ImplementsLog, Log!LogSpec

-----------------------------------------------------------------------------
(* The stages a flush still passes through before it answers its current   *)
(* entry or ends.  The retry of a failed INSERT comes back to the SELECT   *)
(* in an aborted transaction, which is the last stage of an entry.         *)
StagesLeft(f) ==
    CASE fpc[f] = "begin" -> 5
      [] fpc[f] = "entry" -> 4
      [] fpc[f] = "select" /\ tx[f] = "open" -> 3
      [] fpc[f] = "insert" -> 2
      [] fpc[f] = "select" /\ tx[f] # "open" -> 1
      [] fpc[f] = "idle" -> 0

(* A flush gets nearer to its end: fewer entries to answer, or as many and *)
(* fewer stages to go.                                                     *)
Nearer(f) ==
    \/ Len(todo'[f]) < Len(todo[f])
    \/ Len(todo'[f]) = Len(todo[f]) /\ StagesLeft(f)' < StagesLeft(f)

Waits(f) == fpc'[f] = fpc[f] /\ todo'[f] = todo[f] /\ tx'[f] = tx[f]

LEMMA ReplyNearer ==
    ASSUME Inv, NEW f \in Flushes, todo[f] # <<>>, NEW res, Reply(f, res)
    PROVE  Nearer(f) /\ \A g \in Flushes \ {f} : fpc'[g] = fpc[g] /\ todo'[g] = todo[g]
  <1>1. todo \in [Flushes -> Seq(Requests)] /\ fpc \in [Flushes -> FlushStages]
    BY DEF Inv, TypeOK
  <1>2. /\ todo'[f] = Tail(todo[f])
        /\ \A g \in Flushes \ {f} : fpc'[g] = fpc[g] /\ todo'[g] = todo[g]
    BY <1>1 DEF Reply
  <1>3. todo[f] \in Seq(Requests) /\ Len(Tail(todo[f])) = Len(todo[f]) - 1 /\ Len(todo[f]) \in Nat
    BY <1>1, HeadTailProperties, LenProperties
  <1> QED
    BY <1>2, <1>3 DEF Nearer

LEMMA AbortWaits ==
    ASSUME Inv, NEW f \in Flushes, Abort(f)
    PROVE  tx'[f] = "aborted" /\ \A g \in Flushes \ {f} : tx'[g] = tx[g]
  BY DEF Inv, TypeOK, Abort

(* A step of a flush brings it nearer to its end, and is its own.          *)
LEMMA FlushNearer ==
    ASSUME Inv, NEW f \in Flushes, FlushBatch(f)
    PROVE  Nearer(f) /\ \A g \in Flushes \ {f} : Waits(g)
  <1>1. /\ fpc \in [Flushes -> FlushStages] /\ tx \in [Flushes -> TxStates]
        /\ todo \in [Flushes -> Seq(Requests)] /\ \A g \in Flushes : Len(todo[g]) \in Nat
    BY DEF Inv, TypeOK
  <1>2. fpc[f] \in {"select", "insert"} => todo[f] # <<>>
    BY DEF Inv, FlushState, FlushKnows
  <1>3. ASSUME \E res : Reply(f, res), todo[f] # <<>>, Abort(f) \/ UNCHANGED tx
        PROVE  Nearer(f) /\ \A g \in Flushes \ {f} : Waits(g)
    BY <1>3, ReplyNearer, AbortWaits DEF Waits
  <1>4. ASSUME NEW to \in FlushStages, fpc' = [fpc EXCEPT ![f] = to], UNCHANGED todo,
               \A g \in Flushes \ {f} : tx'[g] = tx[g],
               StagesLeft(f)' < StagesLeft(f)
        PROVE  Nearer(f) /\ \A g \in Flushes \ {f} : Waits(g)
    BY <1>1, <1>4 DEF Nearer, Waits
  <1>5. CASE FlushBegin(f)
    <2>1. StagesLeft(f)' < StagesLeft(f)
      BY <1>1, <1>5 DEF FlushBegin, StagesLeft
    <2> QED
      BY <1>1, <1>4, <1>5, <2>1 DEF FlushBegin, FlushStages
  <1>6. CASE FlushBeginFails(f)
    <2>1. /\ fpc[f] = "begin" /\ fpc' = [fpc EXCEPT ![f] = "idle"]
          /\ todo' = [todo EXCEPT ![f] = <<>>] /\ UNCHANGED tx
      BY <1>6 DEF FlushBeginFails, txVars
    <2>2. \A g \in Flushes \ {f} : Waits(g)
      BY <1>1, <2>1 DEF Waits
    <2>3. fpc'[f] = "idle" /\ todo'[f] = <<>>
      BY <1>1, <2>1
    <2>4. StagesLeft(f)' < StagesLeft(f)
      BY <2>1, <2>3 DEF StagesLeft
    <2>5. Len(todo'[f]) =< Len(todo[f])
      BY <1>1, <2>3
    <2> QED
      BY <1>1, <2>2, <2>3, <2>4, <2>5 DEF Nearer
  <1>7. CASE FlushEntry(f)
    <2>1. CASE /\ fpc[f] = "entry" /\ fpc' = [fpc EXCEPT ![f] = "select"]
               /\ tx' = [tx EXCEPT ![f] = "open"] /\ UNCHANGED todo
      <3>1. StagesLeft(f)' < StagesLeft(f)
        BY <1>1, <2>1 DEF StagesLeft
      <3> QED
        BY <1>1, <1>4, <2>1, <3>1 DEF FlushStages
    <2> QED
      BY <1>3, <1>7, <2>1, ZenonT(30) DEF FlushEntry
  <1>8. CASE FlushSelect(f)
    <2>1. CASE fpc[f] = "select" /\ tx[f] = "open" /\ fpc' = [fpc EXCEPT ![f] = "insert"] /\ UNCHANGED <<todo, tx>>
      <3>1. StagesLeft(f)' < StagesLeft(f)
        BY <1>1, <2>1 DEF StagesLeft
      <3> QED
        BY <1>1, <1>4, <2>1, <3>1 DEF FlushStages
    <2>2. /\ fpc[f] = "select" /\ tx[f] = "open" /\ UNCHANGED tx
          /\ \/ \E res : Reply(f, res)
             \/ fpc' = [fpc EXCEPT ![f] = "insert"] /\ UNCHANGED todo
      BY <1>8 DEF FlushSelect, NoRow, VersionConflict, VersionMatch
    <2> QED
      BY <1>2, <1>3, <2>1, <2>2, ZenonT(30)
  <1>9. CASE FlushSelectFails(f)
    BY <1>2, <1>3, <1>9, ZenonT(30) DEF FlushSelectFails
  <1>10. CASE FlushInsert(f)
    <2>1. fpc[f] = "insert" /\ (\E res : Reply(f, res)) /\ (Abort(f) \/ UNCHANGED tx)
      BY <1>10 DEF FlushInsert
    <2> QED
      BY <1>2, <1>3, <2>1
  <1>11. CASE FlushInsertFails(f)
    <2>1. CASE fpc[f] = "insert" /\ Abort(f) /\ fpc' = [fpc EXCEPT ![f] = "select"] /\ UNCHANGED todo
      <3>1. fpc'[f] = "select" /\ tx'[f] = "aborted"
        BY <1>1, <2>1, AbortWaits
      <3>2. StagesLeft(f)' < StagesLeft(f)
        BY <2>1, <3>1 DEF StagesLeft
      <3> QED
        BY <1>4, <2>1, <3>2, AbortWaits DEF FlushStages
    <2> QED
      BY <1>2, <1>3, <1>11, <2>1 DEF FlushInsertFails
  <1>12. CASE EndFlush(f)
    <2>1. StagesLeft(f)' < StagesLeft(f)
      BY <1>1, <1>12 DEF EndFlush, StagesLeft
    <2> QED
      BY <1>1, <1>4, <1>12, <2>1 DEF EndFlush, FlushStages
  <1> QED
    BY <1>5, <1>6, <1>7, <1>8, <1>9, <1>10, <1>11, <1>12 DEF FlushBatch, FlushCommit, FlushRollback

(* Each step of a flush brings it nearer to its end, and no step of        *)
(* another flush, of batch_processor or of a caller takes it back.         *)
FlushesComeNearer ==
    \A f \in Flushes :
        /\ FlushBatch(f) => Nearer(f)
        /\ fpc[f] # "idle" => Nearer(f) \/ Waits(f)

(* flush_batch ends after a bounded number of its own steps: an entry is   *)
(* answered after one retry of a failed INSERT at the latest, since the    *)
(* retry runs in an aborted transaction, and nothing is ever added to a    *)
(* batch that is being flushed.                                            *)
THEOREM FlushesAreFinite == Spec => [][FlushesComeNearer]_vars
  <1>1. Inv /\ [Next]_vars => [FlushesComeNearer]_vars
    <2> SUFFICES ASSUME Inv, Next, NEW f \in Flushes, fpc[f] # "idle"
                 PROVE  Nearer(f) \/ Waits(f)
      BY FlushNearer DEF FlushesComeNearer
    <2>1. ASSUME NEW g \in Flushes, FlushBatch(g)
          PROVE  Nearer(f) \/ Waits(f)
      BY <2>1, FlushNearer
    <2>2. CASE BatchProcessor
      <3>1. UNCHANGED tx /\ (UNCHANGED <<fpc, todo>> \/ \E entries : Spawn(entries))
        BY <2>2 DEF BatchProcessor, BatchProcessorRecv, BatchProcessorTimeout, txVars
      <3>2. ASSUME NEW entries, Spawn(entries)
            PROVE  fpc'[f] = fpc[f] /\ todo'[f] = todo[f]
        BY <3>2 DEF Spawn, Inv, TypeOK
      <3> QED
        BY <3>1, <3>2 DEF Waits
    <2>3. CASE \E r \in Requests : SaveCall(r) \/ Cancel(r)
      BY <2>3 DEF SaveCall, SaveEvents, AcquirePermit, ReturnFromSave, Cancel, txVars, Waits
    <2>4. CASE \E a \in Lookups : QueryCurrentVersion(a) \/ CacheCurrentVersion(a)
      BY <2>4, ZenonT(30) DEF QueryCurrentVersion, CacheCurrentVersion, txVars, Waits
    <2> QED
      BY <2>1, <2>2, <2>3, <2>4 DEF Next
  <1> QED
    BY <1>1, InvHolds, PTL DEF Spec
=============================================================================
