------------------------- MODULE EventReplayProofs -------------------------
(***************************************************************************)
(* Proofs about what the replays of EventPipeline add to a history, for    *)
(* any accounts and histories, any number of recoveries and replays, with  *)
(* and without failing calls.                                              *)
(***************************************************************************)
EXTENDS EventPipelineProofs, FiniteSetTheorems, WellFoundedInduction

(***************************************************************************)
(* Doubled                                                                 *)
(***************************************************************************)
(* Induction for a set of numbers: the least one outside has a predecessor *)
(* inside.                                                                 *)
LEMMA Induction ==
    ASSUME NEW S \in SUBSET Nat, 0 \in S, \A k \in S : k + 1 \in S
    PROVE  \A k \in Nat : k \in S
  <1> SUFFICES ASSUME Nat \ S # {} PROVE FALSE
    OBVIOUS
  <1> DEFINE R == OpToRel(<, Nat)
             T == Nat \ S
  <1>1. IsWellFoundedOn(R, Nat)
    BY NatLessThanWellFounded, ZenonT(30)
  <1>2. \A x, y \in Nat : y < x => <<y, x>> \in R
    BY SMT DEF OpToRel
  <1>3. T \in SUBSET Nat /\ T # {}
    OBVIOUS
  <1>4. PICK x \in T : \A y \in T : ~(<<y, x>> \in R)
    <2> HIDE DEF R, T
    <2> QED
      BY <1>1, <1>3, WFMin, ZenonT(30)
  <1> HIDE DEF R
  <1>5. x \in Nat /\ x # 0
    BY <1>4
  <1>6. x - 1 \in S
    <2>1. x - 1 \in Nat /\ <<x - 1, x>> \in R
      BY <1>2, <1>5
    <2>2. x - 1 \notin T
      <3> HIDE DEF T
      <3> QED
        BY <1>4, <2>1
    <2> QED
      BY <2>1, <2>2
  <1> QED
    BY <1>4, <1>5, <1>6

(* f is the recursive function that Doubled(n, K) is defined with.         *)
Doubles(f, n, K) == f = [i \in 0 .. K |-> IF i = 0 THEN n ELSE 2 * f[i - 1]]

LEMMA DoublesExists ==
    ASSUME NEW n
    PROVE  \A K \in Nat : \E f : Doubles(f, n, K)
  <1> DEFINE S == {K \in Nat : \E f : Doubles(f, n, K)}
  <1>1. 0 \in S
    <2>1. Doubles([i \in 0 .. 0 |-> n], n, 0)
      BY DEF Doubles
    <2> QED
      BY <2>1
  <1>2. ASSUME NEW K \in S PROVE K + 1 \in S
    <2>1. PICK f : Doubles(f, n, K)
      OBVIOUS
    <2>2. Doubles([i \in 0 .. K + 1 |-> IF i = K + 1 THEN 2 * f[K] ELSE f[i]], n, K + 1)
      BY <2>1 DEF Doubles
    <2> QED
      BY <2>2
  <1>3. S \in SUBSET Nat
    OBVIOUS
  <1> HIDE DEF S
  <1>4. \A K \in Nat : K \in S
    BY <1>1, <1>2, <1>3, Induction
  <1> QED
    BY <1>4 DEF S

LEMMA DoubledUnfolds ==
    ASSUME NEW n, NEW K \in Nat
    PROVE  \E f : Doubles(f, n, K) /\ Doubled(n, K) = f[K]
  <1> DEFINE f == CHOOSE f : Doubles(f, n, K)
  <1>1. Doubles(f, n, K)
    BY DoublesExists
  <1>2. Doubled(n, K) = f[K]
    BY DEF Doubled, Doubles
  <1> QED
    BY <1>1, <1>2, ZenonT(30)

LEMMA DoublesAgree ==
    ASSUME NEW n, NEW K \in Nat, NEW f, Doubles(f, n, K), NEW g, Doubles(g, n, K + 1)
    PROVE  f[K] = g[K]
  <1> DEFINE S == {i \in Nat : i =< K => f[i] = g[i]}
  <1>1. 0 \in S
    BY DEF Doubles
  <1>2. ASSUME NEW i \in S PROVE i + 1 \in S
    <2> SUFFICES ASSUME i + 1 =< K PROVE f[i + 1] = g[i + 1]
      OBVIOUS
    <2>1. f[i] = g[i]
      OBVIOUS
    <2>2. f[i + 1] = 2 * f[i] /\ g[i + 1] = 2 * g[i]
      BY DEF Doubles
    <2> QED
      BY <2>1, <2>2
  <1>3. S \in SUBSET Nat
    OBVIOUS
  <1> HIDE DEF S
  <1>4. K \in S
    BY <1>1, <1>2, <1>3, Induction
  <1> QED
    BY <1>4 DEF S

LEMMA DoubledSteps ==
    ASSUME NEW n, NEW k \in Nat
    PROVE  Doubled(n, 0) = n /\ Doubled(n, k + 1) = 2 * Doubled(n, k)
  <1>1. PICK e : Doubles(e, n, 0) /\ Doubled(n, 0) = e[0]
    BY DoubledUnfolds
  <1>2. PICK f : Doubles(f, n, k) /\ Doubled(n, k) = f[k]
    BY DoubledUnfolds
  <1>3. PICK g : Doubles(g, n, k + 1) /\ Doubled(n, k + 1) = g[k + 1]
    BY DoubledUnfolds
  <1>4. f[k] = g[k]
    BY <1>2, <1>3, DoublesAgree
  <1>5. g[k + 1] = 2 * g[k] /\ e[0] = n
    BY <1>1, <1>3 DEF Doubles
  <1> QED
    BY <1>1, <1>2, <1>3, <1>4, <1>5

(* Doubled is a number, and grows with both of its arguments.              *)
LEMMA DoubledType ==
    ASSUME NEW n \in Nat
    PROVE  \A k \in Nat : Doubled(n, k) \in Nat
  <1> DEFINE S == {k \in Nat : Doubled(n, k) \in Nat}
  <1>1. 0 \in S
    BY DoubledSteps
  <1>2. ASSUME NEW k \in S PROVE k + 1 \in S
    BY DoubledSteps
  <1>3. S \in SUBSET Nat
    OBVIOUS
  <1> HIDE DEF S
  <1>4. \A k \in Nat : k \in S
    BY <1>1, <1>2, <1>3, Induction
  <1> QED
    BY <1>4 DEF S

LEMMA DoubledMore ==
    ASSUME NEW m \in Nat, NEW n \in Nat, m < n
    PROVE  \A k \in Nat : Doubled(m, k) < Doubled(n, k)
  <1> DEFINE S == {k \in Nat : Doubled(m, k) < Doubled(n, k)}
  <1>1. 0 \in S
    BY DoubledSteps
  <1>2. ASSUME NEW k \in S PROVE k + 1 \in S
    BY DoubledSteps, DoubledType
  <1>3. S \in SUBSET Nat
    OBVIOUS
  <1> HIDE DEF S
  <1>4. \A k \in Nat : k \in S
    BY <1>1, <1>2, <1>3, Induction
  <1> QED
    BY <1>4 DEF S

LEMMA DoubledLonger ==
    ASSUME NEW n \in Nat, NEW j \in Nat
    PROVE  \A k \in Nat : j =< k => Doubled(n, j) =< Doubled(n, k)
  <1> DEFINE S == {k \in Nat : j =< k => Doubled(n, j) =< Doubled(n, k)}
  <1>1. 0 \in S
    BY DoubledSteps, DoubledType
  <1>2. ASSUME NEW k \in S PROVE k + 1 \in S
    <2>1. /\ Doubled(n, k) \in Nat /\ Doubled(n, j) \in Nat
          /\ Doubled(n, k + 1) = 2 * Doubled(n, k)
      BY DoubledSteps, DoubledType, ZenonT(30)
    <2> QED
      BY <2>1
  <1>3. S \in SUBSET Nat
    OBVIOUS
  <1> HIDE DEF S
  <1>4. \A k \in Nat : k \in S
    BY <1>1, <1>2, <1>3, Induction
  <1> QED
    BY <1>4 DEF S

LEMMA DoubledMonotone ==
    ASSUME NEW m \in Nat, NEW n \in Nat, m =< n, NEW j \in Nat, NEW k \in Nat, j =< k
    PROVE  /\ Doubled(m, j) \in Nat /\ Doubled(n, k) \in Nat
           /\ Doubled(m, j) =< Doubled(n, k)
           /\ m < n => Doubled(m, j) + 1 =< Doubled(n, k)
           /\ j < k => 2 * Doubled(m, j) =< Doubled(n, k)
  <1>1. /\ Doubled(m, j) \in Nat /\ Doubled(n, j) \in Nat /\ Doubled(n, k) \in Nat
    BY DoubledType, ZenonT(30)
  <1>2. Doubled(m, j) =< Doubled(n, j) /\ (m < n => Doubled(m, j) < Doubled(n, j))
    BY <1>1, DoubledMore
  <1>3. Doubled(n, j) =< Doubled(n, k)
    BY DoubledLonger
  <1>4. j < k => 2 * Doubled(n, j) =< Doubled(n, k)
    <2> SUFFICES ASSUME j < k PROVE 2 * Doubled(n, j) =< Doubled(n, k)
      OBVIOUS
    <2>1. j + 1 \in Nat /\ j + 1 =< k
      OBVIOUS
    <2>2. Doubled(n, j + 1) =< Doubled(n, k)
      BY <2>1, DoubledLonger
    <2> QED
      BY <2>2, DoubledSteps
  <1> QED
    BY <1>1, <1>2, <1>3, <1>4

(***************************************************************************)
(* How far a history can have grown                                        *)
(***************************************************************************)
(* A worker that has started and has yet to read the events of an account  *)
(* that it is going to send.                                               *)
Unread(w, a) ==
    \/ wpc[w] = "accounts"
    \/ a \in todo[w]
    \/ wpc[w] \in {"verifying", "reading"} /\ current[w] = a

Plain(a) == {w \in Workers : Unread(w, a) /\ strategy[w] # "SelectiveReplay"}

Doubling(a) == {w \in Workers : Unread(w, a) /\ strategy[w] = "SelectiveReplay"}

(* What GrowthBound leaves to a history when the workers that have yet to  *)
(* read it do not count.                                                   *)
Room(a) ==
    Doubled(InitialEvents[a] + (starts - selective - Cardinality(Plain(a))),
            selective - Cardinality(Doubling(a)))

(* The messages the loop may still save.                                   *)
Pending ==
    Range(events) \cup (UNION {Range(sending[w]) : w \in Workers})
      \cup {b \in {batch} : lpc = "saving"}

(* No message is ahead of the history it was read from, and there is room  *)
(* for the ones that are not behind.  Saving one leaves the others behind. *)
Fits(b) ==
    /\ b.account \in Accounts
    /\ Len(b.events) > 0
    /\ b.version =< Len(stored[b.account])
    /\ b.version = Len(stored[b.account]) =>
          Len(stored[b.account]) + Len(b.events) =< Room(b.account)

Counted(a) ==
    /\ IsFiniteSet(Plain(a)) /\ Cardinality(Plain(a)) =< starts - selective
    /\ IsFiniteSet(Doubling(a)) /\ Cardinality(Doubling(a)) =< selective

(* A recovery has taken the account it reads off its list, and is no       *)
(* selective replay.                                                       *)
ReadOnce ==
    /\ \A w \in Workers : wpc[w] \in {"verifying", "reading"} => current[w] \notin todo[w]
    /\ \A w \in Recoveries : strategy[w] = "Recovery"

GrowthInv ==
    /\ ReadOnce
    /\ \A a \in Accounts : Counted(a) /\ Len(stored[a]) =< Room(a)
    /\ \A b \in Pending : Fits(b)

LEMMA RangeParts ==
    ASSUME NEW S, NEW s \in Seq(S)
    PROVE  /\ s # <<>> => Head(s) \in Range(s) /\ Range(Tail(s)) \subseteq Range(s)
           /\ \A e \in S : Range(Append(s, e)) \subseteq Range(s) \cup {e}
           /\ Range(<<>>) = {}
  <1>1. Range(s) = {s[i] : i \in 1 .. Len(s)} /\ Len(s) \in Nat
    BY RangeEquality, LenProperties
  <1>2. ASSUME s # <<>> PROVE Head(s) \in Range(s) /\ Range(Tail(s)) \subseteq Range(s)
    <2>1. /\ Tail(s) \in Seq(S) /\ Len(Tail(s)) = Len(s) - 1 /\ Head(s) = s[1] /\ Len(s) > 0
          /\ \A i \in 1 .. Len(Tail(s)) : Tail(s)[i] = s[i + 1]
      BY <1>2, HeadTailProperties, EmptySeq, <1>1
    <2>2. Range(Tail(s)) = {Tail(s)[i] : i \in 1 .. Len(Tail(s))}
      BY <2>1, RangeEquality, ZenonT(30)
    <2> QED
      BY <1>1, <2>1, <2>2
  <1>3. ASSUME NEW e \in S PROVE Range(Append(s, e)) \subseteq Range(s) \cup {e}
    <2>1. /\ Append(s, e) \in Seq(S) /\ Len(Append(s, e)) = Len(s) + 1
          /\ \A i \in 1 .. Len(s) + 1 : Append(s, e)[i] = IF i =< Len(s) THEN s[i] ELSE e
      BY <1>1, AppendProperties
    <2>2. Range(Append(s, e)) = {Append(s, e)[i] : i \in 1 .. Len(Append(s, e))}
      BY <2>1, RangeEquality, ZenonT(30)
    <2> QED
      BY <1>1, <2>1, <2>2
  <1>4. Range(<<>>) = {}
    BY DEF Range
  <1> QED
    BY <1>2, <1>3, <1>4

(* Workers that have read an account, or have ended, make room.            *)
LEMMA RoomKept ==
    ASSUME Inv, NEW a \in Accounts, Counted(a), UNCHANGED <<starts, selective>>,
           Plain(a)' \subseteq Plain(a), Doubling(a)' \subseteq Doubling(a)
    PROVE  /\ Counted(a)' /\ Room(a) \in Nat /\ Room(a)' \in Nat
           /\ Room(a) =< Room(a)'
           /\ Plain(a)' # Plain(a) => Room(a) + 1 =< Room(a)'
           /\ Doubling(a)' # Doubling(a) => 2 * Room(a) =< Room(a)'
  <1> DEFINE p == Cardinality(Plain(a))
             q == Cardinality(Plain(a)')
             d == Cardinality(Doubling(a))
             e == Cardinality(Doubling(a)')
             i == InitialEvents[a]
  <1>1. /\ IsFiniteSet(Plain(a)') /\ p \in Nat /\ q \in Nat /\ q =< p
        /\ Plain(a)' # Plain(a) => q < p
    BY FS_Subset, FS_CardinalityType DEF Counted
  <1>2. /\ IsFiniteSet(Doubling(a)') /\ d \in Nat /\ e \in Nat /\ e =< d
        /\ Doubling(a)' # Doubling(a) => e < d
    BY FS_Subset, FS_CardinalityType DEF Counted
  <1>3. i \in Nat /\ starts \in Nat /\ selective \in Nat /\ selective =< starts
    BY EventPipelineAssumption DEF Inv, TypeOK
  <1>4. p =< starts - selective /\ d =< selective
    BY DEF Counted
  <1>5. Counted(a)'
    BY <1>1, <1>2, <1>3, <1>4 DEF Counted
  <1>6. /\ Room(a) = Doubled(i + (starts - selective - p), selective - d)
        /\ Room(a)' = Doubled(i + (starts - selective - q), selective - e)
    BY DEF Room
  <1> HIDE DEF p, q, d, e, i
  <1> DEFINE m == i + (starts - selective - p)
             n == i + (starts - selective - q)
             j == selective - d
             k == selective - e
  <1>7. /\ m \in Nat /\ n \in Nat /\ m =< n /\ (q < p => m < n)
        /\ j \in Nat /\ k \in Nat /\ j =< k /\ (e < d => j < k)
    BY <1>1, <1>2, <1>3, <1>4
  <1>8. Room(a) = Doubled(m, j) /\ Room(a)' = Doubled(n, k)
    BY <1>6
  <1> HIDE DEF m, n, j, k
  <1>9. /\ Doubled(m, j) \in Nat /\ Doubled(n, k) \in Nat
        /\ Doubled(m, j) =< Doubled(n, k)
        /\ m < n => Doubled(m, j) + 1 =< Doubled(n, k)
        /\ j < k => 2 * Doubled(m, j) =< Doubled(n, k)
    BY <1>7, DoubledMonotone
  <1> QED
    BY <1>1, <1>2, <1>5, <1>7, <1>8, <1>9

(* One more worker, and one more start to allow for it.                    *)
LEMMA RoomStarted ==
    ASSUME Inv, NEW a \in Accounts, Counted(a), NEW w, starts' = starts + 1,
           \/ /\ UNCHANGED selective
              /\ Plain(a)' \subseteq Plain(a) \cup {w} /\ Doubling(a)' \subseteq Doubling(a)
           \/ /\ selective' = selective + 1
              /\ Plain(a)' \subseteq Plain(a) /\ Doubling(a)' \subseteq Doubling(a) \cup {w}
    PROVE  Counted(a)' /\ Room(a) \in Nat /\ Room(a)' \in Nat /\ Room(a) =< Room(a)'
  <1> DEFINE p == Cardinality(Plain(a))
             q == Cardinality(Plain(a)')
             d == Cardinality(Doubling(a))
             e == Cardinality(Doubling(a)')
             i == InitialEvents[a]
  <1>1. ASSUME NEW S, IsFiniteSet(S)
        PROVE  /\ Cardinality(S) \in Nat
               /\ IsFiniteSet(S \cup {w}) /\ Cardinality(S \cup {w}) =< Cardinality(S) + 1
               /\ \A T : T \subseteq S => /\ IsFiniteSet(T) /\ Cardinality(T) \in Nat
                                          /\ Cardinality(T) =< Cardinality(S)
    BY <1>1, FS_AddElement, FS_Subset, FS_CardinalityType
  <1>2. /\ IsFiniteSet(Plain(a)') /\ p \in Nat /\ q \in Nat
        /\ Plain(a)' \subseteq Plain(a) => q =< p
        /\ Plain(a)' \subseteq Plain(a) \cup {w} => q =< p + 1
    <2>1. IsFiniteSet(Plain(a)) /\ Plain(a)' \subseteq Plain(a) \cup {w}
      BY DEF Counted
    <2> HIDE DEF Plain
    <2>2. /\ p \in Nat /\ IsFiniteSet(Plain(a) \cup {w})
          /\ Cardinality(Plain(a) \cup {w}) =< p + 1
          /\ Cardinality(Plain(a) \cup {w}) \in Nat
      BY <1>1, <2>1
    <2>3. IsFiniteSet(Plain(a)') /\ q \in Nat /\ q =< Cardinality(Plain(a) \cup {w})
      BY <1>1, <2>1, <2>2
    <2>4. Plain(a)' \subseteq Plain(a) => q =< p
      BY <1>1, <2>1, ZenonT(30)
    <2> QED
      BY <2>2, <2>3, <2>4
  <1>3. /\ IsFiniteSet(Doubling(a)') /\ d \in Nat /\ e \in Nat
        /\ Doubling(a)' \subseteq Doubling(a) => e =< d
        /\ Doubling(a)' \subseteq Doubling(a) \cup {w} => e =< d + 1
    <2>1. IsFiniteSet(Doubling(a)) /\ Doubling(a)' \subseteq Doubling(a) \cup {w}
      BY DEF Counted
    <2>2. /\ d \in Nat /\ IsFiniteSet(Doubling(a) \cup {w})
          /\ Cardinality(Doubling(a) \cup {w}) =< d + 1
          /\ Cardinality(Doubling(a) \cup {w}) \in Nat
      BY <1>1, <2>1
    <2>3. IsFiniteSet(Doubling(a)') /\ e \in Nat /\ e =< Cardinality(Doubling(a) \cup {w})
      BY <1>1, <2>1, <2>2
    <2>4. Doubling(a)' \subseteq Doubling(a) => e =< d
      BY <1>1, <2>1, ZenonT(30)
    <2> QED
      BY <2>2, <2>3, <2>4
  <1>4. i \in Nat /\ starts \in Nat /\ selective \in Nat /\ selective =< starts
    BY EventPipelineAssumption DEF Inv, TypeOK
  <1>5. p =< starts - selective /\ d =< selective
    BY DEF Counted
  <1>6. /\ Room(a) = Doubled(i + (starts - selective - p), selective - d)
        /\ Room(a)' = Doubled(i + (starts' - selective' - q), selective' - e)
    BY DEF Room
  <1>7. \/ selective' = selective /\ q =< p + 1 /\ e =< d
        \/ selective' = selective + 1 /\ q =< p /\ e =< d + 1
    BY <1>2, <1>3
  <1>8. Counted(a)'
    <2>1. q =< starts' - selective' /\ e =< selective'
      <3> HIDE DEF p, q, d, e
      <3> QED
        BY <1>2, <1>3, <1>4, <1>5, <1>7
    <2> QED
      BY <1>2, <1>3, <2>1 DEF Counted
  <1> HIDE DEF p, q, d, e, i
  <1> DEFINE m == i + (starts - selective - p)
             n == i + (starts' - selective' - q)
             j == selective - d
             k == selective' - e
  <1>9. m \in Nat /\ n \in Nat /\ m =< n /\ j \in Nat /\ k \in Nat /\ j =< k
    BY <1>2, <1>3, <1>4, <1>5, <1>7
  <1>10. Room(a) = Doubled(m, j) /\ Room(a)' = Doubled(n, k)
    BY <1>6
  <1> HIDE DEF m, n, j, k
  <1> QED
    BY <1>8, <1>9, <1>10, DoubledMonotone

LEMMA PendingIs ==
    ASSUME NEW b
    PROVE  b \in Pending <=> \/ b \in Range(events)
                             \/ \E w \in Workers : b \in Range(sending[w])
                             \/ lpc = "saving" /\ b = batch
  BY DEF Pending

LEMMA PendingIsNext ==
    ASSUME NEW b
    PROVE  b \in Pending' <=> \/ b \in Range(events')
                              \/ \E w \in Workers : b \in Range(sending'[w])
                              \/ lpc' = "saving" /\ b = batch'
  BY DEF Pending

LEMMA PendingType == Inv => Pending \subseteq Messages
  <1> SUFFICES ASSUME Inv PROVE Pending \subseteq Messages
    OBVIOUS
  <1>1. Range(events) \subseteq Messages /\ batch \in Messages
    BY RangeOfSeq DEF Inv, TypeOK
  <1>2. ASSUME NEW w \in Workers PROVE Range(sending[w]) \subseteq Messages
    <2>1. sending[w] \in Seq(Messages)
      BY DEF Inv, TypeOK
    <2> QED
      BY <2>1, RangeOfSeq
  <1> QED
    BY <1>1, <1>2, PendingIs

(* No worker has more to read than before.                                 *)
Shrinks ==
    \A a \in Accounts : Plain(a)' \subseteq Plain(a) /\ Doubling(a)' \subseteq Doubling(a)

LEMMA WorkerShrinks ==
    ASSUME NEW w \in Workers,
           \A v \in Workers : v # w => /\ wpc'[v] = wpc[v] /\ todo'[v] = todo[v]
                                       /\ current'[v] = current[v] /\ strategy'[v] = strategy[v],
           \A a \in Accounts : Unread(w, a)' => Unread(w, a) /\ strategy'[w] = strategy[w]
    PROVE  Shrinks
  <1> SUFFICES ASSUME NEW a \in Accounts, NEW v \in Workers, Unread(v, a)'
               PROVE  Unread(v, a) /\ strategy'[v] = strategy[v]
    BY DEF Shrinks, Plain, Doubling
  <1>1. CASE v = w
    BY <1>1
  <1>2. CASE v # w
    BY <1>2 DEF Unread
  <1> QED
    BY <1>1, <1>2

(* A step that leaves the histories as they are, takes no room from them,  *)
(* and whose new messages fit.                                             *)
LEMMA RoomFrame ==
    ASSUME Inv, GrowthInv, ReadOnce', UNCHANGED stored,
           \A a \in Accounts : /\ Counted(a)' /\ Room(a) \in Nat /\ Room(a)' \in Nat
                                /\ Room(a) =< Room(a)',
           \A b \in Pending' : b \in Pending \/ Fits(b)'
    PROVE  GrowthInv'
  <1>1. ASSUME NEW a \in Accounts
        PROVE  /\ Counted(a)' /\ Room(a) \in Nat /\ Room(a)' \in Nat /\ Room(a) =< Room(a)'
               /\ Len(stored[a]) \in Nat /\ Len(stored[a]) =< Room(a)
    BY HistoryType DEF GrowthInv, Inv
  <1>2. ASSUME NEW a \in Accounts PROVE Counted(a)' /\ Len(stored'[a]) =< Room(a)'
    BY <1>1
  <1>3. ASSUME NEW b \in Pending, Fits(b) PROVE Fits(b)'
    <2>1. PICK a \in Accounts : a = b.account
      BY <1>3 DEF Fits
    <2>2. PICK n \in Nat : n = Len(b.events)
      BY PendingType, LenProperties DEF Messages
    <2>3. b.version = Len(stored[a]) => Len(stored[a]) + n =< Room(a)
      BY <1>3, <2>1, <2>2, ZenonT(30) DEF Fits
    <2>4. b.version = Len(stored[a]) => Len(stored[a]) + n =< Room(a)'
      <3>1. /\ Room(a) \in Nat /\ Room(a)' \in Nat /\ Room(a) =< Room(a)'
            /\ Len(stored[a]) \in Nat
        BY <1>1
      <3> QED
        BY <2>3, <3>1
    <2> QED
      BY <1>3, <2>1, <2>2, <2>4, ZenonT(30) DEF Fits
  <1>4. \A b \in Pending' : Fits(b)'
    BY <1>3 DEF GrowthInv
  <1> QED
    BY <1>2, <1>4 DEF GrowthInv

LEMMA GrowthFrame ==
    ASSUME Inv, GrowthInv, ReadOnce', Shrinks, UNCHANGED <<stored, starts, selective>>,
           \A b \in Pending' : b \in Pending \/ Fits(b)'
    PROVE  GrowthInv'
  <1>1. \A a \in Accounts : /\ Counted(a)' /\ Room(a) \in Nat /\ Room(a)' \in Nat
                             /\ Room(a) =< Room(a)'
    BY RoomKept DEF GrowthInv, Shrinks
  <1> QED
    BY <1>1, RoomFrame

(* What a worker sends that has just read the history fits.                *)
LEMMA SinglesFit ==
    ASSUME Inv, GrowthInv, Shrinks, UNCHANGED <<stored, starts, selective>>, NEW a \in Accounts,
           Plain(a)' # Plain(a) \/ Doubling(a)' # Doubling(a),
           NEW b \in Range(Singles(a))
    PROVE  Fits(b)'
  <1>1. /\ Room(a) \in Nat /\ Room(a)' \in Nat
        /\ Room(a) + 1 =< Room(a)' \/ 2 * Room(a) =< Room(a)'
        /\ Len(stored[a]) \in Nat /\ Len(stored[a]) =< Room(a)
    BY RoomKept, HistoryType DEF GrowthInv, Shrinks, Inv
  <1>2. PICK v \in 1 .. Len(stored[a]) : b = Batch(a, <<stored[a][v]>>, v)
    BY ZenonT(30) DEF Range, Singles
  <1>3. b.account = a /\ Len(b.events) = 1 /\ b.version = v
    BY <1>2 DEF Batch
  <1>4. v = Len(stored[a]) => Len(stored[a]) + 1 =< Room(a)'
    BY <1>1
  <1>5. v \in Nat /\ v =< Len(stored[a])
    BY <1>1
  <1>6. stored' = stored
    OBVIOUS
  <1> QED
    BY <1>3, <1>4, <1>5, <1>6, SMT DEF Fits

LEMMA WholeFits ==
    ASSUME Inv, GrowthInv, Shrinks, UNCHANGED <<stored, starts, selective>>, NEW a \in Accounts,
           Doubling(a)' # Doubling(a),
           NEW b \in Range(Whole(a))
    PROVE  Fits(b)'
  <1>1. /\ Room(a) \in Nat /\ Room(a)' \in Nat /\ 2 * Room(a) =< Room(a)'
        /\ Len(stored[a]) \in Nat /\ Len(stored[a]) =< Room(a) /\ stored[a] \in Seq(Nat)
    BY RoomKept, HistoryType DEF GrowthInv, Shrinks, Inv
  <1>2. stored[a] # <<>> /\ b = Batch(a, stored[a], Len(stored[a]))
    <2>1. CASE stored[a] = <<>>
      BY <2>1 DEF Range, Whole
    <2>2. CASE stored[a] # <<>>
      BY <2>2 DEF Range, Whole
    <2> QED
      BY <2>1, <2>2
  <1>3. b.account = a /\ b.events = stored[a] /\ b.version = Len(stored[a])
    BY <1>2 DEF Batch
  <1>4. Len(stored[a]) > 0
    BY <1>1, <1>2, EmptySeq
  <1> QED
    BY <1>1, <1>3, <1>4 DEF Fits

LEMMA FinishGrowth ==
    ASSUME Inv, GrowthInv, NEW w \in Workers, Finish(w), UNCHANGED stored,
           Range(events') \subseteq Pending
    PROVE  GrowthInv'
  <1>1. /\ \A v \in Workers : v # w => /\ wpc'[v] = wpc[v] /\ todo'[v] = todo[v]
                                       /\ current'[v] = current[v] /\ strategy'[v] = strategy[v]
                                       /\ sending'[v] = sending[v]
        /\ wpc'[w] = "idle" /\ todo'[w] = {} /\ sending'[w] = <<>> /\ strategy'[w] = "Recovery"
    BY DEF Finish, Inv, TypeOK
  <1>2. Shrinks
    BY <1>1, WorkerShrinks DEF Unread
  <1>3. ReadOnce'
    BY <1>1 DEF GrowthInv, ReadOnce, Workers
  <1>4. Range(<<>>) = {}
    BY DEF Range
  <1>5. \A v \in Workers : Range(sending'[v]) \subseteq Pending
    BY <1>1, <1>4 DEF Pending
  <1>6. lpc' = "saving" => batch' \in Pending
    BY PendingIs DEF Finish
  <1>7. Pending' \subseteq Pending
    BY <1>5, <1>6, PendingIsNext
  <1> QED
    BY <1>2, <1>3, <1>7, GrowthFrame DEF Finish

(* A worker that goes on, with no more to read than before.                *)
LEMMA GotoGrowth ==
    ASSUME Inv, GrowthInv, NEW w \in Workers, NEW step, Goto(w, step),
           UNCHANGED <<stored, strategy>>,
           \A v \in Workers : v # w => todo'[v] = todo[v] /\ current'[v] = current[v],
           \A a \in Accounts : Unread(w, a)' => Unread(w, a),
           step \in {"verifying", "reading"} => current'[w] \notin todo'[w],
           Range(events') \subseteq Pending,
           \A v \in Workers : \A b \in Range(sending'[v]) : b \in Pending \/ Fits(b)'
    PROVE  GrowthInv'
  <1>1. /\ \A v \in Workers : v # w => wpc'[v] = wpc[v]
        /\ wpc'[w] = step /\ UNCHANGED <<lpc, batch, starts, selective>>
    BY DEF Goto, Inv, TypeOK, loopVars
  <1>2. Shrinks
    BY <1>1, WorkerShrinks
  <1>3. ReadOnce'
    BY <1>1 DEF GrowthInv, ReadOnce
  <1>4. \A b \in Pending' : b \in Pending \/ Fits(b)'
    BY <1>1, PendingIs, PendingIsNext
  <1> QED
    BY <1>1, <1>2, <1>3, <1>4, GrowthFrame

LEMMA GrowthInit == Init => GrowthInv
  <1> SUFFICES ASSUME Init PROVE GrowthInv
    OBVIOUS
  <1>1. ReadOnce
    BY DEF Init, ReadOnce, Workers
  <1>2. ASSUME NEW a \in Accounts PROVE Counted(a) /\ Len(stored[a]) =< Room(a)
    <2>1. Plain(a) = {} /\ Doubling(a) = {}
      BY DEF Init, Plain, Doubling, Unread
    <2>2. /\ Cardinality(Plain(a)) = 0 /\ Cardinality(Doubling(a)) = 0
          /\ IsFiniteSet(Plain(a)) /\ IsFiniteSet(Doubling(a))
      BY <2>1, FS_EmptySet
    <2>3. InitialEvents[a] \in Nat
      BY EventPipelineAssumption
    <2>4. Room(a) = InitialEvents[a]
      BY <2>2, <2>3, DoubledSteps DEF Room, Init
    <2>5. Len(stored[a]) = InitialEvents[a]
      BY <2>3 DEF Init
    <2> QED
      BY <2>2, <2>3, <2>4, <2>5 DEF Counted, Init
  <1>3. Range(<<>>) = {}
    BY DEF Range
  <1>4. Pending = {}
    BY <1>3, PendingIs DEF Init
  <1> QED
    BY <1>1, <1>2, <1>4 DEF GrowthInv

(* The loop and the dead letter task leave the workers alone.              *)
LEMMA LoopShrinks ==
    ASSUME GrowthInv, UNCHANGED workVars
    PROVE  Shrinks /\ ReadOnce' /\ UNCHANGED <<starts, selective>>
  BY DEF workVars, Shrinks, Plain, Doubling, Unread, GrowthInv, ReadOnce

LEMMA SaveGrowth ==
    ASSUME Inv, GrowthInv, SaveEvents
    PROVE  GrowthInv'
  <1>1. Shrinks /\ ReadOnce' /\ UNCHANGED <<starts, selective>>
    BY LoopShrinks DEF SaveEvents
  <1>2. Pending' \subseteq Pending
    BY PendingIs, PendingIsNext DEF SaveEvents, workVars
  <1>3. CASE UNCHANGED stored
    BY <1>1, <1>2, <1>3, GrowthFrame
  <1>4. CASE /\ batch.version = Len(stored[batch.account])
             /\ stored' = [stored EXCEPT ![batch.account] = @ \o batch.events]
    <2>1. Fits(batch) /\ batch \in Messages
      BY PendingIs, PendingType DEF SaveEvents, GrowthInv
    <2>2. PICK c \in Accounts : c = batch.account
      BY <2>1 DEF Fits
    <2>3. stored[c] \in Seq(Nat) /\ batch.events \in Seq(Nat) /\ Len(stored[c]) \in Nat
      BY <2>1, HistoryType DEF Inv, Messages
    <2>4. PICK k \in Nat : k = Len(batch.events)
      BY <2>3, LenProperties
    <2>5. k > 0 /\ Len(stored[c]) + k =< Room(c)
      BY <1>4, <2>1, <2>2, <2>4, ZenonT(30) DEF Fits
    <2>6. Len(stored'[c]) = Len(stored[c]) + k
      <3>1. stored'[c] = stored[c] \o batch.events
        BY <1>4, <2>2, ZenonT(30) DEF Inv, TypeOK
      <3> QED
        BY <2>3, <2>4, <3>1, ConcatProperties
    <2>7. \A a \in Accounts : a # c => stored'[a] = stored[a]
      BY <1>4, <2>2 DEF Inv, TypeOK
    <2>8. ASSUME NEW a \in Accounts
          PROVE  /\ Counted(a)' /\ Room(a) \in Nat /\ Room(a)' \in Nat /\ Room(a) =< Room(a)'
                 /\ Len(stored[a]) \in Nat /\ Len(stored[a]) =< Room(a)
      BY <1>1, RoomKept, HistoryType DEF GrowthInv, Shrinks, Inv
    <2>9. ASSUME NEW a \in Accounts PROVE Len(stored'[a]) =< Room(a)'
      <3>1. Len(stored'[c]) =< Room(c)'
        <4>1. Room(c) \in Nat /\ Room(c)' \in Nat /\ Room(c) =< Room(c)' /\ Len(stored[c]) \in Nat
          BY <2>8
        <4> QED
          BY <2>5, <2>6, <4>1
      <3>2. CASE a # c
        BY <2>7, <2>8, <3>2
      <3> QED
        BY <3>1, <3>2
    <2>10. ASSUME NEW b \in Pending PROVE Fits(b)'
      <3>1. PICK a \in Accounts : a = b.account
        BY ZenonT(30) DEF GrowthInv, Fits
      <3>2. PICK n \in Nat : n = Len(b.events)
        BY PendingType, LenProperties DEF Messages
      <3>3. PICK v \in Nat : v = b.version
        BY PendingType DEF Messages
      <3>4. n > 0 /\ v =< Len(stored[a]) /\ (v = Len(stored[a]) => Len(stored[a]) + n =< Room(a))
        BY <3>1, <3>2, <3>3, ZenonT(30) DEF GrowthInv, Fits
      <3>5. v =< Len(stored'[a]) /\ (v = Len(stored'[a]) => Len(stored'[a]) + n =< Room(a)')
        <4>1. CASE a = c
          <5>1. Len(stored[c]) \in Nat /\ v =< Len(stored[c])
            BY <2>8, <3>4, <4>1
          <5>2. v < Len(stored'[c])
            BY <2>5, <2>6, <5>1
          <5> QED
            BY <2>5, <2>6, <4>1, <5>1, <5>2
        <4>2. CASE a # c
          BY <2>7, <2>8, <3>4, <4>2
        <4> QED
          BY <4>1, <4>2
      <3> QED
        BY <3>1, <3>2, <3>3, <3>4, <3>5, ZenonT(30) DEF Fits
    <2> QED
      BY <1>1, <1>2, <2>8, <2>9, <2>10 DEF GrowthInv
  <1> QED
    BY <1>3, <1>4, ZenonT(30) DEF SaveEvents

LEMMA ProcessingGrowth ==
    ASSUME Inv, GrowthInv, Processing
    PROVE  GrowthInv'
  <1>1. CASE SaveEvents
    BY <1>1, SaveGrowth
  <1>2. CASE ~SaveEvents
    <2>1. UNCHANGED <<stored, workVars>>
      BY <1>2 DEF Processing, StartProcessing, PollEvents, UpdateCaches, SendToDlq, ProcessDlq
    <2>2. events # <<>> => /\ Head(events) \in Range(events)
                           /\ Range(Tail(events)) \subseteq Range(events)
      BY RangeParts DEF Inv, TypeOK
    <2>3. \A w \in Workers : sending'[w] = sending[w]
      BY <2>1 DEF workVars
    <2>4. /\ Range(events') \subseteq Range(events)
          /\ lpc' = "saving" => \/ lpc = "saving" /\ batch' = batch
                                \/ batch' \in Range(events)
      BY <1>2, <2>2, ZenonT(30)
         DEF Processing, StartProcessing, PollEvents, UpdateCaches, SendToDlq, ProcessDlq, loopVars
    <2>5. Pending' \subseteq Pending
      BY <2>3, <2>4, PendingIs, PendingIsNext
    <2> QED
      BY <2>1, <2>5, LoopShrinks, GrowthFrame
  <1> QED
    BY <1>1, <1>2

LEMMA StartRecoveryGrowth ==
    ASSUME Inv, GrowthInv, NEW w \in Recoveries, StartRecovery(w)
    PROVE  GrowthInv'
  <1>1. /\ \A v \in Workers : v # w => wpc'[v] = wpc[v]
        /\ w \in Workers /\ wpc'[w] = "accounts" /\ wpc[w] = "idle"
        /\ UNCHANGED <<stored, events, sending, batch, todo, current, strategy, selective>>
        /\ starts' = starts + 1 /\ lpc' \in {lpc, "recovering"}
    BY DEF StartRecovery, Inv, TypeOK, Workers
  <1>2. ReadOnce' /\ strategy[w] # "SelectiveReplay"
    BY <1>1 DEF GrowthInv, ReadOnce
  <1>3. ASSUME NEW a \in Accounts
        PROVE  Plain(a)' \subseteq Plain(a) \cup {w} /\ Doubling(a)' \subseteq Doubling(a)
    BY <1>1, <1>2 DEF Plain, Doubling, Unread
  <1>4. \A a \in Accounts : /\ Counted(a)' /\ Room(a) \in Nat /\ Room(a)' \in Nat
                             /\ Room(a) =< Room(a)'
    BY <1>1, <1>3, RoomStarted, SMTT(30) DEF GrowthInv
  <1>5. Pending' \subseteq Pending
    BY <1>1, PendingIs, PendingIsNext
  <1> QED
    BY <1>1, <1>2, <1>4, <1>5, RoomFrame

LEMMA ExecuteRecoveryGrowth ==
    ASSUME Inv, GrowthInv, NEW w \in Strategists, ExecuteRecovery(w)
    PROVE  GrowthInv'
  <1>1. /\ w \in Workers /\ w \notin Recoveries /\ Recoveries \subseteq Workers
        /\ UNCHANGED <<stored, events, sending, lpc, batch, current>> /\ starts' = starts + 1
    BY EventPipelineAssumption DEF ExecuteRecovery, Workers, Recoveries, loopVars
  <1>2. /\ \A v \in Workers : v # w => /\ wpc'[v] = wpc[v] /\ todo'[v] = todo[v]
                                       /\ strategy'[v] = strategy[v]
        /\ wpc'[w] \in {"dlq", "next"}
        /\ \/ strategy'[w] = "SelectiveReplay" /\ selective' = selective + 1
           \/ strategy'[w] # "SelectiveReplay" /\ selective' = selective
    BY <1>1 DEF ExecuteRecovery, Inv, TypeOK
  <1>3. ReadOnce'
    BY <1>1, <1>2 DEF GrowthInv, ReadOnce
  <1>4. ASSUME NEW a \in Accounts
        PROVE  \/ /\ UNCHANGED selective
                  /\ Plain(a)' \subseteq Plain(a) \cup {w} /\ Doubling(a)' \subseteq Doubling(a)
               \/ /\ selective' = selective + 1
                  /\ Plain(a)' \subseteq Plain(a) /\ Doubling(a)' \subseteq Doubling(a) \cup {w}
    BY <1>1, <1>2 DEF Plain, Doubling, Unread
  <1>5. \A a \in Accounts : /\ Counted(a)' /\ Room(a) \in Nat /\ Room(a)' \in Nat
                             /\ Room(a) =< Room(a)'
    BY <1>1, <1>4, RoomStarted, SMTT(30) DEF GrowthInv
  <1>6. Pending' \subseteq Pending
    BY <1>1, PendingIs, PendingIsNext
  <1> QED
    BY <1>1, <1>3, <1>5, <1>6, RoomFrame

LEMMA PendingParts ==
    /\ Range(events) \subseteq Pending
    /\ \A w \in Workers : Range(sending[w]) \subseteq Pending
  BY PendingIs

LEMMA RecoveryGrowth ==
    ASSUME Inv, GrowthInv, NEW w \in Workers, Recovery(w)
    PROVE  GrowthInv'
  <1> USE PendingParts
  <1>0. /\ todo \in [Workers -> SUBSET Accounts] /\ current \in [Workers -> Accounts \cup {Nobody}]
        /\ wpc \in [Workers -> Steps] /\ sending \in [Workers -> Seq(Messages)]
    BY DEF Inv, TypeOK, Steps
  <1>1. CASE GetAllAccounts(w)
    <2>1. CASE Goto(w, "next") /\ todo' = [todo EXCEPT ![w] = Accounts]
                 /\ UNCHANGED <<strategy, current, read, sending>>
      BY <1>0, <1>1, <2>1, GotoGrowth DEF GetAllAccounts, Unread
    <2>2. CASE Finish(w)
      BY <1>1, <2>2, FinishGrowth DEF GetAllAccounts
    <2> QED
      BY <1>1, <2>1, <2>2 DEF GetAllAccounts
  <1>2. CASE NextAccount(w)
    <2>1. ASSUME NEW a \in todo[w],
                 todo' = [todo EXCEPT ![w] = @ \ {a}], current' = [current EXCEPT ![w] = a],
                 Goto(w, "verifying"), UNCHANGED <<strategy, sending>>
          PROVE  GrowthInv'
      <3>1. /\ \A v \in Workers : v # w => todo'[v] = todo[v] /\ current'[v] = current[v]
            /\ todo'[w] = todo[w] \ {a} /\ current'[w] = a /\ wpc'[w] = "verifying"
        BY <1>0, <2>1 DEF Goto
      <3>2. \A b \in Accounts : Unread(w, b)' => Unread(w, b)
        BY <3>1 DEF Unread
      <3> QED
        BY <1>2, <2>1, <3>1, <3>2, GotoGrowth, ZenonT(30) DEF NextAccount
    <2>2. CASE Finish(w)
      BY <1>2, <2>2, FinishGrowth DEF NextAccount
    <2> QED
      BY <1>2, <2>1, <2>2 DEF NextAccount
  <1>3. CASE VerifyAccountEvents(w)
    <2>1. PICK step \in {"reading", "failed"} : Goto(w, step)
      BY <1>3 DEF VerifyAccountEvents
    <2>2. \A a \in Accounts : Unread(w, a)' => Unread(w, a)
      BY <1>0, <1>3, <2>1 DEF VerifyAccountEvents, Goto, Unread
    <2>3. current'[w] \notin todo'[w]
      BY <1>3 DEF VerifyAccountEvents, GrowthInv, ReadOnce
    <2> QED
      BY <1>3, <2>1, <2>2, <2>3, GotoGrowth DEF VerifyAccountEvents
  <1>4. CASE HandleFailure(w)
    <2>1. CASE Goto(w, "next") /\ UNCHANGED <<strategy, todo, current, read, sending>>
      <3>1. \A a \in Accounts : Unread(w, a)' => Unread(w, a)
        BY <1>0, <2>1 DEF Goto, Unread
      <3> QED
        BY <1>4, <2>1, <3>1, GotoGrowth DEF HandleFailure
    <2>2. CASE Finish(w)
      BY <1>4, <2>2, FinishGrowth DEF HandleFailure
    <2> QED
      BY <1>4, <2>1, <2>2 DEF HandleFailure
  <1>5. CASE ReplayAccountEvents(w)
    <2>1. current[w] \in Accounts
      BY <1>5, RecoverySteps DEF ReplayAccountEvents
    <2>2. PICK step \in {"sending", "failed"} : Goto(w, step)
      BY <1>5 DEF ReplayAccountEvents
    <2>3. \A a \in Accounts : Unread(w, a)' => Unread(w, a)
      BY <1>0, <1>5, <2>2 DEF ReplayAccountEvents, Goto, Unread
    <2>4. CASE UNCHANGED sending
      BY <1>5, <2>2, <2>3, <2>4, GotoGrowth, ZenonT(30) DEF ReplayAccountEvents
    <2>5. CASE sending' = [sending EXCEPT ![w] = Singles(current[w])]
      <3>1. /\ \A v \in Workers : v # w => sending'[v] = sending[v] /\ wpc'[v] = wpc[v]
            /\ sending'[w] = Singles(current[w]) /\ wpc'[w] = step
        BY <1>0, <2>2, <2>5 DEF Goto
      <3>2. Unread(w, current[w]) /\ ~Unread(w, current[w])'
        BY <1>5, <2>1, <3>1 DEF ReplayAccountEvents, Unread, GrowthInv, ReadOnce
      <3>3. \/ Plain(current[w])' # Plain(current[w])
            \/ Doubling(current[w])' # Doubling(current[w])
        BY <3>2 DEF Plain, Doubling
      <3>4. Shrinks
        BY <1>5, <2>3, <3>1, WorkerShrinks DEF ReplayAccountEvents
      <3>5. \A b \in Range(Singles(current[w])) : Fits(b)'
        BY <1>5, <2>1, <2>2, <3>3, <3>4, SinglesFit DEF ReplayAccountEvents, Goto
      <3> QED
        BY <1>5, <2>2, <2>3, <3>1, <3>5, GotoGrowth DEF ReplayAccountEvents
    <2> QED
      BY <1>5, <2>4, <2>5 DEF ReplayAccountEvents
  <1>6. CASE UpdateAccountCache(w)
    <2>1. CASE Goto(w, "next") /\ UNCHANGED <<strategy, todo, current, read, sending>>
      <3>1. \A a \in Accounts : Unread(w, a)' => Unread(w, a)
        BY <1>0, <2>1 DEF Goto, Unread
      <3> QED
        BY <1>6, <2>1, <3>1, GotoGrowth DEF UpdateAccountCache
    <2>2. CASE Finish(w)
      BY <1>6, <2>2, FinishGrowth DEF UpdateAccountCache
    <2> QED
      BY <1>6, <2>1, <2>2 DEF UpdateAccountCache
  <1>7. CASE RecoveryEnds(w)
    BY <1>7, FinishGrowth DEF RecoveryEnds
  <1> QED
    BY <1>1, <1>2, <1>3, <1>4, <1>5, <1>6, <1>7 DEF Recovery

LEMMA ReplayGrowth ==
    ASSUME Inv, GrowthInv, NEW w \in Workers, Replay(w)
    PROVE  GrowthInv'
  <1> USE PendingParts
  <1>0. /\ todo \in [Workers -> SUBSET Accounts] /\ wpc \in [Workers -> Steps]
        /\ sending \in [Workers -> Seq(Messages)]
        /\ events # <<>> => Range(Tail(events)) \subseteq Range(events)
    BY RangeParts DEF Inv, TypeOK, Steps
  <1>1. CASE ReplayAccount(w)
    <2> DEFINE step == IF strategy[w] = "IncrementalReplay" THEN "scanning" ELSE "sending"
               batches(a) == CASE strategy[w] = "FullReplay" -> Singles(a)
                               [] strategy[w] = "SelectiveReplay" -> Whole(a)
                               [] OTHER -> <<>>
    <2>1. ASSUME NEW a \in todo[w], todo' = [todo EXCEPT ![w] = @ \ {a}],
                 sending' = [sending EXCEPT ![w] = batches(a)],
                 Goto(w, step), UNCHANGED <<strategy, current, read>>
          PROVE  GrowthInv'
      <3>1. a \in Accounts /\ step \in {"scanning", "sending"}
        BY <1>0
      <3>2. /\ batches(a) \in {Singles(a), Whole(a), <<>>}
            /\ batches(a) = Whole(a) => \/ strategy[w] = "SelectiveReplay"
                                        \/ batches(a) \in {Singles(a), <<>>}
        BY DEF batches
      <3> HIDE DEF step, batches
      <3>3. /\ \A v \in Workers : v # w => /\ sending'[v] = sending[v] /\ wpc'[v] = wpc[v]
                                           /\ todo'[v] = todo[v]
            /\ sending'[w] = batches(a) /\ wpc'[w] = step /\ todo'[w] = todo[w] \ {a}
        BY <1>0, <2>1 DEF Goto
      <3>4. \A b \in Accounts : Unread(w, b)' => Unread(w, b)
        BY <3>1, <3>3 DEF Unread
      <3>5. Shrinks
        BY <2>1, <3>3, <3>4, WorkerShrinks
      <3>6. Unread(w, a) /\ ~Unread(w, a)'
        BY <3>1, <3>3 DEF Unread
      <3>7. /\ strategy[w] = "SelectiveReplay" => Doubling(a)' # Doubling(a)
            /\ Plain(a)' # Plain(a) \/ Doubling(a)' # Doubling(a)
        BY <3>6 DEF Plain, Doubling
      <3>8. UNCHANGED <<stored, starts, selective>>
        BY <1>1, <2>1 DEF ReplayAccount, Goto
      <3>9. \A b \in Range(batches(a)) : Fits(b)'
        <4>1. CASE batches(a) = Singles(a)
          BY <3>1, <3>5, <3>7, <3>8, <4>1, SinglesFit
        <4>2. CASE batches(a) = Whole(a) /\ strategy[w] = "SelectiveReplay"
          BY <3>1, <3>5, <3>7, <3>8, <4>2, WholeFits
        <4>3. CASE batches(a) = <<>>
          <5>1. Range(<<>>) = {}
            BY DEF Range
          <5> QED
            BY <4>3, <5>1
        <4> QED
          BY <3>2, <4>1, <4>2, <4>3
      <3>10. Range(events') \subseteq Pending
        BY <1>1 DEF ReplayAccount
      <3> QED
        BY <2>1, <3>1, <3>3, <3>4, <3>8, <3>9, <3>10, GotoGrowth
    <2>2. CASE Finish(w)
      BY <1>1, <2>2, FinishGrowth DEF ReplayAccount
    <2> QED
      BY <1>1, <2>1, <2>2 DEF ReplayAccount
  <1>2. CASE ReplayEnds(w)
    BY <1>2, FinishGrowth DEF ReplayEnds
  <1>3. CASE GetLastProcessedVersion(w)
    <2>1. UNCHANGED stored /\ Range(events') \subseteq Range(events)
      BY <1>0, <1>3, ZenonT(30) DEF GetLastProcessedVersion
    <2>2. CASE UNCHANGED <<loopVars, workVars>>
      <3>1. Pending' \subseteq Pending
        BY <2>1, <2>2, PendingIs, PendingIsNext DEF loopVars, workVars
      <3> QED
        BY <2>1, <2>2, <3>1, LoopShrinks, GrowthFrame
    <2>3. CASE Finish(w)
      BY <2>1, <2>3, FinishGrowth
    <2> QED
      BY <1>3, <2>2, <2>3 DEF GetLastProcessedVersion
  <1>4. CASE DlqRecovery(w)
    BY <1>0, <1>4, FinishGrowth, ZenonT(30) DEF DlqRecovery
  <1> QED
    BY <1>1, <1>2, <1>3, <1>4 DEF Replay

LEMMA SendGrowth ==
    ASSUME Inv, GrowthInv, NEW w \in Workers, SendEventBatch(w) \/ AllSent(w)
    PROVE  GrowthInv'
  <1> USE PendingParts
  <1>0. wpc \in [Workers -> Steps] /\ sending \in [Workers -> Seq(Messages)]
    BY DEF Inv, TypeOK, Steps
  <1>1. CASE SendEventBatch(w)
    <2>1. /\ Head(sending[w]) \in Messages /\ Head(sending[w]) \in Range(sending[w])
          /\ Range(Tail(sending[w])) \subseteq Range(sending[w])
      BY <1>0, <1>1, HeadTailType, RangeParts DEF SendEventBatch
    <2>2. Range(Append(events, Head(sending[w]))) \subseteq Range(events) \cup {Head(sending[w])}
      BY <2>1, RangeParts DEF Inv, TypeOK
    <2>3. UNCHANGED stored /\ Range(events') \subseteq Pending
      BY <1>1, <2>1, <2>2, ZenonT(30) DEF SendEventBatch
    <2>4. CASE /\ sending' = [sending EXCEPT ![w] = Tail(@)]
               /\ UNCHANGED <<loopVars, wpc, starts, selective, strategy, todo, current, read>>
      <3>1. /\ \A v \in Workers : v # w => sending'[v] = sending[v]
            /\ sending'[w] = Tail(sending[w])
        BY <1>0, <2>4
      <3>2. \A v \in Workers : Range(sending'[v]) \subseteq Pending
        BY <2>1, <3>1
      <3>3. Pending' \subseteq Pending
        BY <2>3, <2>4, <3>2, PendingIs, PendingIsNext DEF loopVars
      <3>4. Shrinks /\ ReadOnce'
        BY <2>4 DEF Shrinks, Plain, Doubling, Unread, GrowthInv, ReadOnce
      <3> QED
        BY <2>3, <2>4, <3>3, <3>4, GrowthFrame
    <2>5. CASE Finish(w)
      BY <2>3, <2>5, FinishGrowth
    <2>6. CASE /\ Goto(w, "failed") /\ sending' = [sending EXCEPT ![w] = <<>>]
               /\ UNCHANGED <<strategy, todo, current, read>>
      <3>1. Range(<<>>) = {}
        BY DEF Range
      <3>2. \A v \in Workers : Range(sending'[v]) \subseteq Pending
        BY <1>0, <2>6, <3>1
      <3>3. \A a \in Accounts : Unread(w, a)' => Unread(w, a)
        BY <1>0, <2>6 DEF Goto, Unread
      <3> QED
        BY <2>3, <2>6, <3>2, <3>3, GotoGrowth
    <2> QED
      BY <1>1, <2>4, <2>5, <2>6 DEF SendEventBatch
  <1>2. CASE AllSent(w)
    <2>1. PICK step \in {"next", "cache"} : Goto(w, step)
      BY <1>2 DEF AllSent
    <2>2. \A a \in Accounts : Unread(w, a)' => Unread(w, a)
      BY <1>0, <1>2, <2>1 DEF AllSent, Goto, Unread
    <2> QED
      BY <1>2, <2>1, <2>2, GotoGrowth DEF AllSent
  <1> QED
    BY <1>1, <1>2

LEMMA NextGrowth == Inv /\ GrowthInv /\ [Next]_vars => GrowthInv'
  <1> SUFFICES ASSUME Inv, GrowthInv, [Next]_vars PROVE GrowthInv'
    OBVIOUS
  <1>1. CASE Processing
    BY <1>1, ProcessingGrowth
  <1>2. ASSUME NEW w \in Workers, Work(w) PROVE GrowthInv'
    BY <1>2, RecoveryGrowth, ReplayGrowth, SendGrowth DEF Work
  <1>3. ASSUME NEW w \in Recoveries, StartRecovery(w) PROVE GrowthInv'
    BY <1>3, StartRecoveryGrowth
  <1>4. ASSUME NEW w \in Strategists, ExecuteRecovery(w) PROVE GrowthInv'
    BY <1>4, ExecuteRecoveryGrowth
  <1>5. CASE UNCHANGED vars
    <2>1. Pending' \subseteq Pending
      BY <1>5, PendingIs, PendingIsNext DEF vars, loopVars, workVars
    <2> QED
      BY <1>5, <2>1, LoopShrinks, GrowthFrame DEF vars
  <1> QED
    BY <1>1, <1>2, <1>3, <1>4, <1>5 DEF Next

(* Replaying the events of an account adds at most one event to its        *)
(* history, or doubles it when the replay is selective, however recoveries *)
(* and replays overlap and whatever fails: save_events takes only one of   *)
(* the messages that were current when it got to them.                     *)
THEOREM ReplaysAreBounded == Spec => []GrowthBound
  <1>1. Inv /\ GrowthInv => GrowthBound
    <2> SUFFICES ASSUME Inv, GrowthInv, NEW a \in Accounts
                 PROVE  Len(stored[a]) =<
                          Doubled(InitialEvents[a] + starts - selective, selective)
      BY DEF GrowthBound
    <2> DEFINE p == Cardinality(Plain(a))
               d == Cardinality(Doubling(a))
               i == InitialEvents[a]
    <2>1. p \in Nat /\ d \in Nat /\ p =< starts - selective /\ d =< selective
      BY FS_CardinalityType DEF GrowthInv, Counted
    <2>2. i \in Nat /\ starts \in Nat /\ selective \in Nat /\ selective =< starts
      BY EventPipelineAssumption DEF Inv, TypeOK
    <2>3. Len(stored[a]) \in Nat
      BY HistoryType DEF Inv
    <2>4. Len(stored[a]) =< Doubled(i + (starts - selective - p), selective - d)
      BY DEF GrowthInv, Room
    <2> HIDE DEF p, d
    <2> DEFINE m == i + (starts - selective - p)
               n == i + starts - selective
               j == selective - d
    <2>5. m \in Nat /\ n \in Nat /\ m =< n /\ j \in Nat /\ j =< selective
      BY <2>1, <2>2
    <2>6. Len(stored[a]) =< Doubled(m, j)
      BY <2>4
    <2> HIDE DEF m, j
    <2>7. /\ Doubled(m, j) \in Nat /\ Doubled(n, selective) \in Nat
          /\ Doubled(m, j) =< Doubled(n, selective)
      BY <2>2, <2>5, DoubledMonotone, ZenonT(30)
    <2> QED
      BY <2>3, <2>6, <2>7
  <1> QED
    BY <1>1, InvHolds, GrowthInit, NextGrowth, PTL DEF Spec
=============================================================================
