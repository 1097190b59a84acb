----------------------- MODULE ExecutorPaymentProofs -----------------------
(***************************************************************************)
(* What is paid, and how often: the items of a transaction are those that  *)
(* the loop of processBatch takes, within the action limit; a transfer     *)
(* that is reported as successful is paid (PaidInv); no transfer is paid   *)
(* more often than it was retried (RetriesCountPayments), and none twice   *)
(* while the service is left alone (OnceInv).                              *)
(***************************************************************************)
EXTENDS ExecutorLaneProofs

-----------------------------------------------------------------------------
(* What a transaction consists of *)

LEMMA ActionsType ==
    ASSUME NEW n \in Nat, NEW items, NEW ids, ids \subseteq 1..n
    PROVE  ActionsOf(items, ids) \in Nat
<1> DEFINE new == {j \in ids : ~ items[j].has_storage_deposit}
<1>1. new \subseteq 1..n
  OBVIOUS
<1>2. ActionsOf(items, ids) = Cardinality(ids) + Cardinality(new)
  BY DEF ActionsOf
<1> HIDE DEF new
<1>3. Cardinality(ids) \in Nat /\ Cardinality(new) \in Nat
  BY <1>1, ItemsFinite
<1> QED BY <1>2, <1>3

\* One more item adds its own actions.
LEMMA ActionsAdd ==
    ASSUME NEW n \in Nat, NEW items, NEW ids, ids \subseteq 1..n, NEW i \in 1..n, i \notin ids
    PROVE  ActionsOf(items, ids \cup {i}) = ActionsOf(items, ids) + ActionsNeeded(items[i])
<1> DEFINE new == {j \in ids : ~ items[j].has_storage_deposit}
           grown == {j \in ids \cup {i} : ~ items[j].has_storage_deposit}
<1>1. new \subseteq 1..n /\ i \notin new
  OBVIOUS
<1>2. grown = IF items[i].has_storage_deposit THEN new ELSE new \cup {i}
  OBVIOUS
<1>3. /\ ActionsOf(items, ids) = Cardinality(ids) + Cardinality(new)
      /\ ActionsOf(items, ids \cup {i}) = Cardinality(ids \cup {i}) + Cardinality(grown)
  BY DEF ActionsOf
<1> HIDE DEF new, grown
<1>4. /\ IsFiniteSet(ids) /\ Cardinality(ids) \in Nat
      /\ IsFiniteSet(new) /\ Cardinality(new) \in Nat
  BY <1>1, ItemsFinite
<1>5. /\ Cardinality(ids \cup {i}) = Cardinality(ids) + 1
      /\ Cardinality(new \cup {i}) = Cardinality(new) + 1
  BY <1>1, <1>4, FS_AddElement
<1>6. CASE items[i].has_storage_deposit
  BY <1>2, <1>3, <1>4, <1>5, <1>6 DEF ActionsNeeded
<1>7. CASE ~ items[i].has_storage_deposit
  BY <1>2, <1>3, <1>4, <1>5, <1>7 DEF ActionsNeeded
<1> QED BY <1>6, <1>7

\* More items have no fewer actions.
LEMMA ActionsGrow ==
    ASSUME NEW n \in Nat, NEW items, NEW ids, NEW more, ids \subseteq more, more \subseteq 1..n
    PROVE  ActionsOf(items, ids) <= ActionsOf(items, more)
<1> DEFINE new == {j \in ids : ~ items[j].has_storage_deposit}
           grown == {j \in more : ~ items[j].has_storage_deposit}
<1>1. new \subseteq grown /\ grown \subseteq 1..n /\ new \subseteq 1..n /\ ids \subseteq 1..n
  OBVIOUS
<1>2. /\ ActionsOf(items, ids) = Cardinality(ids) + Cardinality(new)
      /\ ActionsOf(items, more) = Cardinality(more) + Cardinality(grown)
  BY DEF ActionsOf
<1> HIDE DEF new, grown
<1>3. /\ IsFiniteSet(more) /\ Cardinality(more) \in Nat /\ Cardinality(ids) \in Nat
      /\ IsFiniteSet(grown) /\ Cardinality(grown) \in Nat /\ Cardinality(new) \in Nat
  BY <1>1, ItemsFinite
<1>4. Cardinality(ids) <= Cardinality(more) /\ Cardinality(new) <= Cardinality(grown)
  BY <1>1, <1>3, FS_Subset
<1> QED BY <1>2, <1>3, <1>4

\* Later items end later, so the items that fit come first.
LEMMA ThroughGrows ==
    ASSUME NEW n \in Nat, NEW items, DOMAIN items \subseteq 1..n,
           NEW i \in DOMAIN items, NEW j \in DOMAIN items, i <= j
    PROVE  /\ ActionsThrough(items, i) \in Nat /\ ActionsThrough(items, j) \in Nat
           /\ ActionsThrough(items, i) <= ActionsThrough(items, j)
<1>1. i \in Nat /\ j \in Nat
  OBVIOUS
<1>2. /\ {k \in DOMAIN items : k <= i} \subseteq {k \in DOMAIN items : k <= j}
      /\ {k \in DOMAIN items : k <= i} \subseteq 1..n
      /\ {k \in DOMAIN items : k <= j} \subseteq 1..n
  BY <1>1
<1> QED BY <1>2, ActionsType, ActionsGrow DEF ActionsThrough

LEMMA GreatestItem ==
    ASSUME NEW n \in Nat, NEW ids, ids \subseteq 1..n, ids # {}
    PROVE  \E m \in ids : \A j \in ids : j <= m
<1> DEFINE T == {n - j : j \in ids}
<1>1. T \in SUBSET Nat /\ T # {}
  <2>1. \A j \in ids : n - j \in Nat
    OBVIOUS
  <2> QED BY <2>1
<1>2. PICK t \in T : \A s \in T : t <= s
  <2> HIDE DEF T
  <2> QED BY <1>1, LeastElement
<1>3. PICK m \in ids : t = n - m
  BY <1>2
<1>4. \A j \in ids : n - m <= n - j
  BY <1>2, <1>3
<1> QED BY <1>3, <1>4

\* Whatever is peeked, at least one item fits, and what fits is within the limit.
LEMMA ActionsFit ==
    ASSUME ExecutorAssumption, NEW n \in Nat, NEW items, DOMAIN items \subseteq 1..n,
           DOMAIN items # {}
    PROVE  NumActions(items) \in 1..MaxActions
<1> DEFINE ids == ItemsToProcess(items)
<1>1. ids \subseteq 1..n /\ MaxActions \in Nat /\ MaxActions >= 2
  BY DEF ItemsToProcess, ExecutorAssumption
<1>2. PICK i \in DOMAIN items : \A j \in DOMAIN items : i <= j
  BY LeastElement, DOMAIN items \in SUBSET Nat
<1>3. ActionsThrough(items, i) = ActionsNeeded(items[i])
  <2>1. {j \in DOMAIN items : j <= i} = {} \cup {i}
    BY <1>2
  <2>2. ActionsOf(items, {} \cup {i}) = ActionsOf(items, {}) + ActionsNeeded(items[i])
    BY ActionsAdd, {} \subseteq 1..n, i \in 1..n
  <2>3. {j \in {} : ~ items[j].has_storage_deposit} = {}
    OBVIOUS
  <2>4. ActionsOf(items, {}) = 0
    BY <2>3, FS_EmptySet DEF ActionsOf
  <2>5. ActionsThrough(items, i) = ActionsOf(items, {} \cup {i})
    BY <2>1 DEF ActionsThrough
  <2>6. ActionsNeeded(items[i]) \in {1, 2}
    BY DEF ActionsNeeded
  <2> QED BY <2>2, <2>4, <2>5, <2>6
<1>4. i \in ids
  BY <1>1, <1>3 DEF ActionsNeeded, ItemsToProcess
<1>5. PICK m \in ids : \A j \in ids : j <= m
  <2> HIDE DEF ids
  <2> QED BY <1>1, <1>4, GreatestItem
<1>6. m \in DOMAIN items /\ ActionsThrough(items, m) <= MaxActions
  BY <1>5 DEF ItemsToProcess
<1>7. {j \in DOMAIN items : j <= m} = ids
  <2>1. ASSUME NEW j \in DOMAIN items, j <= m
        PROVE  j \in ids
    <3>1. /\ ActionsThrough(items, j) <= ActionsThrough(items, m)
          /\ ActionsThrough(items, j) \in Nat /\ ActionsThrough(items, m) \in Nat
      BY <1>6, <2>1, ThroughGrows
    <3> QED BY <1>1, <1>6, <3>1 DEF ItemsToProcess
  <2> QED BY <1>5, <2>1 DEF ItemsToProcess
<1>8. NumActions(items) = ActionsThrough(items, m)
  BY <1>7 DEF NumActions, ActionsThrough
<1>9. /\ ActionsThrough(items, i) <= ActionsThrough(items, m)
      /\ ActionsThrough(items, m) \in Nat
  BY <1>2, <1>6, ThroughGrows
<1> QED BY <1>1, <1>3, <1>6, <1>8, <1>9 DEF ActionsNeeded

\* The first k items of the peek, what the loop has taken of them, and where it is
\* after k turns.
First(items, k) == {i \in DOMAIN items : Rank(DOMAIN items, i) < k}

TakenOf(items, k) == First(items, k) \cap ItemsToProcess(items)

AfterTurns(items, k) ==
    [actions |-> ActionsOf(items, TakenOf(items, k)), taken |-> TakenOf(items, k),
     broken |-> TakenOf(items, k) # First(items, k)]

LEMMA FirstGrows ==
    ASSUME NEW n \in Nat, NEW items, DOMAIN items \subseteq 1..n, NEW i \in DOMAIN items
    PROVE  LET k == Rank(DOMAIN items, i)
           IN  /\ First(items, k) = {j \in DOMAIN items : j < i}
               /\ First(items, k + 1) = First(items, k) \cup {i}
<1> DEFINE k == Rank(DOMAIN items, i)
<1>1. \A j \in DOMAIN items : j \in Nat /\ Rank(DOMAIN items, j) \in Nat
  <2>1. \A j \in DOMAIN items : {x \in DOMAIN items : x < j} \subseteq 1..n
    OBVIOUS
  <2> QED BY <2>1, ItemsFinite DEF Rank
<1>2. ASSUME NEW j \in DOMAIN items
      PROVE  /\ j < i => Rank(DOMAIN items, j) < k
             /\ i < j => k < Rank(DOMAIN items, j)
  BY RankGrows
<1>3. ASSUME NEW j \in DOMAIN items
      PROVE  Rank(DOMAIN items, j) < k <=> j < i
  BY <1>1, <1>2
<1>4. ASSUME NEW j \in DOMAIN items
      PROVE  Rank(DOMAIN items, j) < k + 1 <=> Rank(DOMAIN items, j) < k \/ j = i
  BY <1>1, <1>2
<1> HIDE DEF k
<1>5. First(items, k) = {j \in DOMAIN items : j < i}
  BY <1>3 DEF First
<1>6. First(items, k + 1) = First(items, k) \cup {i}
  BY <1>4 DEF First
<1> QED BY <1>5, <1>6 DEF k

\* A turn of the loop leads from what it has after k items to what it has after one
\* more; once an item did not fit, no later one does.
LEMMA TurnTakes ==
    ASSUME ExecutorAssumption, NEW n \in Nat, NEW items, DOMAIN items \subseteq 1..n,
           NEW i \in DOMAIN items
    PROVE  LET k == Rank(DOMAIN items, i)
           IN  LoopTurn(items, AfterTurns(items, k), i) = AfterTurns(items, k + 1)
<1> DEFINE k == Rank(DOMAIN items, i)
           old == First(items, k)
           fit == ItemsToProcess(items)
           before == AfterTurns(items, k)
           after == before.actions + ActionsNeeded(items[i])
<1>1. /\ old = {j \in DOMAIN items : j < i}
      /\ First(items, k + 1) = old \cup {i}
  BY FirstGrows
<1>2. /\ old \subseteq 1..n /\ i \in 1..n /\ i \notin old
      /\ {j \in DOMAIN items : j <= i} = old \cup {i}
  BY <1>1
<1>3. TakenOf(items, k) = old \cap fit /\ TakenOf(items, k + 1) = (old \cup {i}) \cap fit
  BY <1>1 DEF TakenOf
<1>4. /\ before = [actions |-> ActionsOf(items, old \cap fit), taken |-> old \cap fit,
                   broken |-> old \cap fit # old]
      /\ AfterTurns(items, k + 1)
           = [actions |-> ActionsOf(items, (old \cup {i}) \cap fit),
              taken |-> (old \cup {i}) \cap fit,
              broken |-> (old \cup {i}) \cap fit # old \cup {i}]
  BY <1>1, <1>3 DEF AfterTurns
<1>5. LoopTurn(items, before, i)
        = IF before.broken \/ after > MaxActions
          THEN [actions |-> before.actions, taken |-> before.taken, broken |-> TRUE]
          ELSE [actions |-> after, taken |-> before.taken \cup {i}, broken |-> FALSE]
  BY DEF LoopTurn
<1>6. i \in fit <=> ActionsThrough(items, i) <= MaxActions
  BY DEF ItemsToProcess
<1>7. ActionsThrough(items, i) \in Nat /\ MaxActions \in Nat
  BY <1>2, ActionsType DEF ActionsThrough, ExecutorAssumption
<1>8. \A j \in old : j \in DOMAIN items /\ j <= i
  BY <1>1
<1>9. ASSUME NEW j \in old, j \notin fit
      PROVE  i \notin fit
  <2>1. /\ ActionsThrough(items, j) <= ActionsThrough(items, i)
        /\ ActionsThrough(items, j) \in Nat
    BY <1>8, ThroughGrows
  <2>2. ~ (ActionsThrough(items, j) <= MaxActions)
    BY <1>8, <1>9 DEF ItemsToProcess
  <2> QED BY <1>6, <1>7, <2>1, <2>2
<1>10. ActionsThrough(items, i) = ActionsOf(items, old) + ActionsNeeded(items[i])
  BY <1>2, ActionsAdd DEF ActionsThrough
<1>11. ActionsThrough(items, i) = ActionsOf(items, old \cup {i})
  BY <1>2 DEF ActionsThrough
<1> HIDE DEF k, old, fit, before
<1>12. /\ before.actions = ActionsOf(items, old \cap fit)
       /\ before.taken = old \cap fit
       /\ before.broken = (old \cap fit # old)
  BY <1>4
<1> HIDE DEF after
<1>13. CASE i \in fit
  <2>1. old \cap fit = old /\ (old \cup {i}) \cap fit = old \cup {i}
    BY <1>9, <1>13
  <2>2. ~ before.broken /\ before.taken = old
    BY <1>12, <2>1
  <2>3. after = ActionsThrough(items, i)
    BY <1>10, <1>12, <2>1 DEF after
  <2>4. ~ (after > MaxActions)
    BY <1>6, <1>7, <1>13, <2>3
  <2>5. LoopTurn(items, before, i)
          = [actions |-> ActionsOf(items, old \cup {i}), taken |-> old \cup {i},
             broken |-> FALSE]
    BY <1>5, <1>11, <2>2, <2>3, <2>4
  <2>6. AfterTurns(items, k + 1)
          = [actions |-> ActionsOf(items, old \cup {i}), taken |-> old \cup {i},
             broken |-> FALSE]
    BY <1>4, <2>1 DEF k
  <2> QED BY <2>5, <2>6 DEF before, k
<1>14. CASE i \notin fit
  <2>1. (old \cup {i}) \cap fit = old \cap fit /\ (old \cup {i}) \cap fit # old \cup {i}
    BY <1>14
  <2>2. before.broken \/ after > MaxActions
    <3>1. CASE old \cap fit = old
      <4>1. after = ActionsThrough(items, i)
        BY <1>10, <1>12, <3>1 DEF after
      <4> QED BY <1>6, <1>7, <1>14, <4>1
    <3>2. CASE old \cap fit # old
      BY <1>12, <3>2
    <3> QED BY <3>1, <3>2
  <2>3. LoopTurn(items, before, i)
          = [actions |-> ActionsOf(items, old \cap fit), taken |-> old \cap fit,
             broken |-> TRUE]
    BY <1>5, <1>12, <2>2
  <2>4. AfterTurns(items, k + 1)
          = [actions |-> ActionsOf(items, old \cap fit), taken |-> old \cap fit,
             broken |-> TRUE]
    BY <1>4, <2>1 DEF k
  <2> QED BY <2>3, <2>4 DEF before, k
<1> QED BY <1>13, <1>14

\* The loop of processBatch, however many turns it makes, takes exactly the items
\* that ItemsToProcess says, and has counted their actions.
THEOREM LoopTakesWhatFits ==
    ASSUME NEW n \in Nat, NEW items, DOMAIN items \subseteq 1..n, NEW turn,
           turn[0] = LoopStart,
           \A k \in 1..Cardinality(DOMAIN items) :
               turn[k] = LoopTurn(items, turn[k - 1], ItemAt(items, k - 1))
    PROVE  LET last == turn[Cardinality(DOMAIN items)]
           IN  last.taken = ItemsToProcess(items) /\ last.actions = NumActions(items)
<1> DEFINE size == Cardinality(DOMAIN items)
           T == {k \in 0..size : turn[k] # AfterTurns(items, k)}
<1>1. size \in Nat
  BY ItemsFinite
<1>2. \A i \in DOMAIN items : Rank(DOMAIN items, i) \in Nat /\ Rank(DOMAIN items, i) < size
  <2> SUFFICES ASSUME NEW i \in DOMAIN items
               PROVE  Rank(DOMAIN items, i) \in Nat /\ Rank(DOMAIN items, i) < size
    OBVIOUS
  <2> DEFINE before == {j \in DOMAIN items : j < i}
  <2>1. i \in Nat /\ i \notin before
    OBVIOUS
  <2>2. before \subseteq DOMAIN items /\ before # DOMAIN items
    BY <2>1
  <2>3. Rank(DOMAIN items, i) = Cardinality(before)
    BY DEF Rank
  <2> HIDE DEF before
  <2>4. IsFiniteSet(DOMAIN items) /\ Cardinality(before) \in Nat
    BY <2>2, ItemsFinite
  <2>5. Cardinality(before) < size
    BY <2>2, <2>4, FS_Subset, FS_CardinalityType
  <2> QED BY <2>3, <2>4, <2>5
<1>3. turn[0] = AfterTurns(items, 0)
  <2>1. First(items, 0) = {}
    BY <1>2 DEF First
  <2>2. TakenOf(items, 0) = {} /\ TakenOf(items, 0) = First(items, 0)
    BY <2>1 DEF TakenOf
  <2>3. ActionsOf(items, {}) = 0
    <3>1. {j \in {} : ~ items[j].has_storage_deposit} = {}
      OBVIOUS
    <3> QED BY <3>1, FS_EmptySet DEF ActionsOf
  <2> QED BY <2>2, <2>3 DEF AfterTurns, LoopStart
<1>4. ASSUME NEW k \in 0..(size - 1), turn[k] = AfterTurns(items, k)
      PROVE  turn[k + 1] = AfterTurns(items, k + 1)
  <2> DEFINE i == ItemAt(items, k)
  <2>1. i \in DOMAIN items /\ Rank(DOMAIN items, i) = k
    BY ItemAtInBatch
  <2>2. k + 1 \in 1..size /\ (k + 1) - 1 = k
    BY <1>1
  <2>3. turn[k + 1] = LoopTurn(items, turn[k], i)
    BY <2>2
  <2> HIDE DEF i
  <2>4. LoopTurn(items, AfterTurns(items, k), i) = AfterTurns(items, k + 1)
    BY ExecutorAssumption, <2>1, TurnTakes
  <2> QED BY <1>4, <2>3, <2>4
<1>5. T = {}
  <2> SUFFICES ASSUME T # {} PROVE FALSE
    OBVIOUS
  <2>1. T \in SUBSET Nat
    BY <1>1
  <2>2. PICK m \in T : \A k \in T : m <= k
    <3> HIDE DEF T
    <3> QED BY <2>1, LeastElement
  <2>3. m \in 1..size /\ turn[m] # AfterTurns(items, m)
    BY <1>1, <1>3, <2>2
  <2>4. m - 1 \in 0..(size - 1) /\ ~ (m <= m - 1) /\ (m - 1) + 1 = m
    BY <1>1, <2>3
  <2>5. m - 1 \notin T
    BY <2>2, <2>4
  <2>6. turn[m - 1] = AfterTurns(items, m - 1)
    BY <1>1, <2>4, <2>5
  <2>7. turn[(m - 1) + 1] = AfterTurns(items, (m - 1) + 1)
    BY <1>4, <2>4, <2>6
  <2> QED BY <2>3, <2>4, <2>7
<1>6. turn[size] = AfterTurns(items, size)
  BY <1>1, <1>5
<1>7. First(items, size) = DOMAIN items
  BY <1>2 DEF First
<1>8. TakenOf(items, size) = ItemsToProcess(items)
  BY <1>7 DEF TakenOf, ItemsToProcess
<1> HIDE DEF size
<1>9. turn[size].taken = ItemsToProcess(items) /\ turn[size].actions = NumActions(items)
  BY <1>6, <1>8 DEF AfterTurns, NumActions
<1> QED BY <1>9 DEF size

\* A lane that signs has peeked something.
SigningSome == \A l \in Lanes : lane[l].pc = "signing" => DOMAIN lane[l].items # {}

LEMMA SomePolled ==
    ASSUME NEW q, Poll(q)
    PROVE  SigningSome'
<1> DEFINE peeked == Peek(q, NumKeys * BatchSize)
<1>1. ASSUME NEW l \in Lanes
      PROVE  lane'[l] = IdleLane \/ (/\ Slice(peeked, l) # {}
                                     /\ DOMAIN lane'[l].items = Slice(peeked, l))
  BY DEF Poll, LaneAt
<1> QED BY <1>1, IdleFields DEF SigningSome

LEMMA SomeMoved ==
    ASSUME Base, SigningSome, NEW l \in Lanes, NEW new, new.pc # "signing",
           lane' = [lane EXCEPT ![l] = new]
    PROVE  SigningSome'
<1>1. \A m \in Lanes : lane'[m] = IF m = l THEN new ELSE lane[m]
  BY Tables
<1> QED BY <1>1 DEF SigningSome

LEMMA SigningSomeStep ==
    ASSUME Base, SigningSome, [Next]_vars
    PROVE  SigningSome'
<1>1. CASE UNCHANGED lane
  BY <1>1 DEF SigningSome
<1>2. CASE LoopStep
  BY <1>1, <1>2, SomePolled
     DEF LoopStep, StartRecovery, RecoverNext, RecoverStep, Wake, LoopCompleted
<1>3. ASSUME NEW l \in Lanes, SignOk(l)
      PROVE  SigningSome'
  <2> DEFINE new == LaneAt("sending", lane[l].items, lastBatchId + 1)
  <2>1. new.pc # "signing" /\ lane' = [lane EXCEPT ![l] = new]
    BY <1>3 DEF SignOk, LaneAt
  <2> HIDE DEF new
  <2> QED BY <2>1, SomeMoved
<1>4. ASSUME NEW l \in Lanes, Return(l)
      PROVE  SigningSome'
  BY <1>4, IdleFields, SomeMoved DEF Return
<1>5. ASSUME NEW l \in Lanes, Backoff(l)
      PROVE  SigningSome'
  <2> DEFINE new == LaneAt("backoff", lane[l].items, lane[l].batch)
  <2>1. new.pc # "signing" /\ lane' = [lane EXCEPT ![l] = new]
    BY <1>5 DEF Backoff, LaneAt
  <2> HIDE DEF new
  <2> QED BY <2>1, SomeMoved
<1>6. ASSUME NEW l \in Lanes, LaneStep(l)
      PROVE  SigningSome'
  BY <1>4, <1>5, <1>6
     DEF LaneStep, RespondSuccess, RespondActionError, RespondIndexOutOfRange,
         RespondInvalidTx, RespondUnknownFailure, NetworkError, BackoffDone
<1>7. CASE LoseMemory
  <2>1. \A l \in Lanes : lane'[l].pc = "idle"
    BY <1>7, IdleFields DEF LoseMemory
  <2> QED BY <2>1 DEF SigningSome
<1>8. CASE Boot \/ ChainStep \/ WaitUntilIdle \/ Unstall \/ UNCHANGED vars
  BY <1>1, <1>8 DEF Boot, ChainStep, ChainExecute, ChainActionError, ChainRefuse, Settle,
                    WaitUntilIdle, Unstall, vars, execVars
<1>9. ASSUME NEW r \in Requests, NEW d \in DepositFlags, Post(r, d)
      PROVE  SigningSome'
  BY <1>1, <1>9 DEF Post, execVars
<1> QED BY <1>2, <1>3, <1>4, <1>6, <1>7, <1>8, <1>9
        DEF Next, SignFail, Crash, CrashAfterStalling

LEMMA FitStep ==
    ASSUME Base, SigningSome, TransactionsFit, [Next]_vars
    PROVE  TransactionsFit'
<1>1. CASE UNCHANGED chain
  BY <1>1 DEF TransactionsFit
<1>2. ASSUME NEW l \in Lanes, SignOk(l)
      PROVE  TransactionsFit'
  <2> DEFINE items == lane[l].items
  <2>1. DOMAIN items \subseteq 1..lastItemId /\ lastItemId \in Nat /\ DOMAIN items # {}
    BY <1>2, Tables DEF SignOk, Lane, SigningSome, Base, TypeOK, LaneTypeOK
  <2> HIDE DEF items
  <2>2. NumActions(items) \in 1..MaxActions
    BY <2>1, ExecutorAssumption, ActionsFit
  <2>3. /\ DOMAIN chain' = DOMAIN chain \cup {lastBatchId + 1}
        /\ chain'[lastBatchId + 1].actions = NumActions(items)
        /\ \A c \in DOMAIN chain : c # lastBatchId + 1 => chain'[c] = chain[c]
    BY <1>2 DEF SignOk, items
  <2> QED BY <2>2, <2>3 DEF TransactionsFit
<1>3. CASE ChainStep
  <2>1. PICK b, outcome, index : Settle(b, outcome, index)
    BY <1>3 DEF ChainStep, ChainExecute, ChainActionError, ChainRefuse
  <2>2. DOMAIN chain' = DOMAIN chain
        /\ \A c \in DOMAIN chain : chain'[c].actions = chain[c].actions
    BY <2>1 DEF Settle, Base, TypeOK, ChainTypeOK, Transaction
  <2> QED BY <2>2 DEF TransactionsFit
<1>4. ASSUME NEW l \in Lanes, SignFail(l) \/ LaneStep(l) \/ CrashAfterStalling(l)
      PROVE  TransactionsFit'
  BY <1>1, <1>4
     DEF SignFail, CrashAfterStalling, LoseMemory, LaneStep, Return, RespondSuccess,
         RespondActionError, RespondIndexOutOfRange, RespondInvalidTx,
         RespondUnknownFailure, NetworkError, Backoff, BackoffDone
<1>5. CASE LoopStep \/ Boot \/ Crash \/ Unstall \/ WaitUntilIdle \/ UNCHANGED vars
  BY <1>1, <1>5
     DEF LoopStep, StartRecovery, RecoverNext, RecoverStep, Wake, LoopCompleted, Boot,
         Crash, LoseMemory, Unstall, WaitUntilIdle, vars, execVars
<1>6. ASSUME NEW r \in Requests, NEW d \in DepositFlags, Post(r, d)
      PROVE  TransactionsFit'
  BY <1>1, <1>6 DEF Post, execVars
<1> QED BY <1>2, <1>3, <1>4, <1>5, <1>6 DEF Next

\* For any batch size and any mix of receivers, no transaction has more actions than
\* MAX_ACTIONS, and none is empty: the early return of processBatch for a batch in
\* which nothing fits is never taken.
THEOREM WithinActionLimit == Spec => []TransactionsFit
<1>1. Init => SigningSome /\ TransactionsFit
  BY IdleFields DEF Init, SigningSome, TransactionsFit, EmptyFunction
<1>2. Base /\ SigningSome /\ [Next]_vars => SigningSome'
  BY SigningSomeStep
<1>3. Base /\ SigningSome /\ TransactionsFit /\ [Next]_vars => TransactionsFit'
  BY FitStep
<1> QED BY <1>1, <1>2, <1>3, LaneInvariant, PTL DEF Spec

-----------------------------------------------------------------------------
(* A successful transfer is paid *)

\* Rows keep their money and leave batches at most, the chain keeps what each
\* transaction pays, and a copy is as it was or is of the row as it is.
LEMMA PaidKept ==
    ASSUME Base, PaidInv, SameMoney(queue, queue'),
           \A i \in DOMAIN queue : queue'[i].batch_id \in {queue[i].batch_id, Null},
           DOMAIN chain' = DOMAIN chain,
           \A c \in DOMAIN chain : chain'[c].pays = chain[c].pays,
           DOMAIN batchTx' \subseteq DOMAIN batchTx,
           \A c : Succeeded(c)' => chain'[c].state = "executed",
           \A l \in Lanes : \A i \in DOMAIN lane'[l].items :
               \/ i \in DOMAIN lane[l].items /\ lane'[l].items[i] = lane[l].items[i]
               \/ lane'[l].items[i].amount = queue'[i].amount
    PROVE  PaidInv'
<1>1. BatchesKnown'
  BY DEF PaidInv, BatchesKnown, Succeeded
<1>2. RowsPaidByBatch'
  BY DEF PaidInv, RowsPaidByBatch, SameMoney
<1>3. CopiesCurrent'
  <2>1. \A l \in Lanes : DOMAIN lane[l].items \subseteq DOMAIN queue
    BY Tables DEF Base, TypeOK, LaneTypeOK
  <2> QED BY <2>1 DEF PaidInv, CopiesCurrent, SameMoney
<1> QED BY <1>1, <1>2, <1>3 DEF PaidInv

\* The same when the chain does not move and no batch becomes successful.
LEMMA PaidTables ==
    ASSUME Base, PaidInv, SameMoney(queue, queue'), UNCHANGED chain,
           \A i \in DOMAIN queue : queue'[i].batch_id \in {queue[i].batch_id, Null},
           \A c \in DOMAIN batchTx' : c \in DOMAIN batchTx /\ batchTx'[c] = batchTx[c],
           \A l \in Lanes : \A i \in DOMAIN lane'[l].items :
               \/ i \in DOMAIN lane[l].items /\ lane'[l].items[i] = lane[l].items[i]
               \/ lane'[l].items[i].amount = queue'[i].amount
    PROVE  PaidInv'
<1>1. \A c : Succeeded(c)' => chain'[c].state = "executed"
  BY DEF PaidInv, BatchesKnown, Succeeded
<1> QED BY <1>1, PaidKept

\* recoverFailedBatch puts no row in a batch.
LEMMA RecoveredFrees ==
    ASSUME NEW n \in Nat, NEW m \in Nat, NEW q \in Rows(n, m), NEW b,
           NEW message \in BOOLEAN, NEW without \in BOOLEAN
    PROVE  \A i \in 1..n :
               RecoveredRows(q, b, message, without)[i].batch_id \in {q[i].batch_id, Null}
<1> SUFFICES ASSUME NEW i \in 1..n
             PROVE  RecoveredRows(q, b, message, without)[i].batch_id \in {q[i].batch_id, Null}
  OBVIOUS
<1>1. RecoveredRows(q, b, message, without)[i].batch_id
        = IF q[i].batch_id = b /\ ~ without THEN Null ELSE q[i].batch_id
  BY RecoveredIds
<1> QED BY <1>1

\* A lane that returns has no copies left.
LEMMA ReturnCopies ==
    ASSUME Base, NEW l \in Lanes, Return(l)
    PROVE  \A m \in Lanes : \A i \in DOMAIN lane'[m].items :
               i \in DOMAIN lane[m].items /\ lane'[m].items[i] = lane[m].items[i]
  BY Tables, IdleFields DEF Return

\* The tables after recoverFailedBatch.
LEMMA RecoverTables ==
    ASSUME Base, NEW b, NEW without \in BOOLEAN, RecoverFailedBatch(b, TRUE, without)
    PROVE  /\ SameMoney(queue, queue')
           /\ \A i \in DOMAIN queue : queue'[i].batch_id \in {queue[i].batch_id, Null}
           /\ \A c \in DOMAIN batchTx' : c \in DOMAIN batchTx /\ batchTx'[c] = batchTx[c]
<1>1. queue' = RecoveredRows(queue, b, TRUE, without) /\ batchTx' = Without(batchTx, b)
  BY DEF RecoverFailedBatch
<1>2. SameMoney(queue, queue')
  BY <1>1, Tables, RecoveredLemma
<1>3. \A i \in 1..lastItemId : queue'[i].batch_id \in {queue[i].batch_id, Null}
  BY <1>1, Tables, RecoveredFrees
<1> QED BY <1>1, <1>2, <1>3, Tables DEF Without

LEMMA PaidLaneStep ==
    ASSUME Base, PaidInv, NEW l \in Lanes, LaneStep(l)
    PROVE  PaidInv'
<1> USE Tables
<1>1. CASE RespondSuccess(l)
  <2> DEFINE b == lane[l].batch
  <2>1. /\ queue' = DepositedRows(queue, b) /\ DOMAIN batchTx' = DOMAIN batchTx
        /\ \A c \in DOMAIN batchTx : c # b => batchTx'[c] = batchTx[c]
        /\ chain' = chain /\ chain[b].state = "executed" /\ Return(l)
    BY <1>1 DEF RespondSuccess, MarkBatchSuccess, Answered, Return
  <2> HIDE DEF b
  <2>2. SameMoney(queue, queue') /\ \A i \in 1..lastItemId : queue'[i].batch_id = queue[i].batch_id
    BY <2>1, DepositedLemma, DepositedIds
  <2>3. \A c : Succeeded(c)' => chain'[c].state = "executed"
    BY <2>1 DEF PaidInv, BatchesKnown, Succeeded
  <2> QED BY <2>1, <2>2, <2>3, ReturnCopies, PaidKept
<1>2. CASE RespondActionError(l)
  <2>1. PICK item, b : /\ queue' = RecoveredRows(StalledRows(queue, item), b, FALSE, FALSE)
                       /\ batchTx' = Without(batchTx, b) /\ Return(l) /\ chain' = chain
    BY <1>2, Zenon DEF RespondActionError, Return
  <2> DEFINE marked == StalledRows(queue, item)
  <2>2. marked \in Rows(lastItemId, lastBatchId) /\ SameMoney(queue, marked)
    BY StalledLemma
  <2>3. \A i \in 1..lastItemId : marked[i].batch_id = queue[i].batch_id
    BY StalledIds
  <2>4. queue' = RecoveredRows(marked, b, FALSE, FALSE)
    BY <2>1
  <2> HIDE DEF marked
  <2>5. SameMoney(marked, queue')
    BY <2>2, <2>4, RecoveredLemma
  <2>6. \A i \in 1..lastItemId : queue'[i].batch_id \in {marked[i].batch_id, Null}
    BY <2>2, <2>4, RecoveredFrees
  <2>7. SameMoney(queue, queue')
    BY <2>2, <2>5 DEF SameMoney
  <2>8. \A c \in DOMAIN batchTx' : c \in DOMAIN batchTx /\ batchTx'[c] = batchTx[c]
    BY <2>1 DEF Without
  <2> QED BY <2>1, <2>3, <2>6, <2>7, <2>8, ReturnCopies, PaidTables
<1>3. CASE RespondIndexOutOfRange(l)
  BY <1>3, RecoverTables, ReturnCopies, PaidTables DEF RespondIndexOutOfRange, Return
<1>4. CASE RespondInvalidTx(l)
  BY <1>4, RecoverTables, ReturnCopies, PaidTables DEF RespondInvalidTx, Return
<1>5. CASE NetworkError(l)
  BY <1>5, RecoverTables, ReturnCopies, PaidTables DEF NetworkError, Return
<1>6. CASE BackoffDone(l)
  BY <1>6, RecoverTables, ReturnCopies, PaidTables DEF BackoffDone, Return
<1>7. CASE RespondUnknownFailure(l)
  BY <1>7, ReturnCopies, PaidTables DEF RespondUnknownFailure, queueVars, Return, SameMoney
<1>8. CASE Backoff(l)
  <2>1. /\ UNCHANGED <<queue, batchTx, chain>>
        /\ \A m \in Lanes : lane'[m].items = lane[m].items
    BY <1>8 DEF Backoff, queueVars, LaneAt
  <2> QED BY <2>1, PaidTables DEF SameMoney
<1> QED BY <1>1, <1>2, <1>3, <1>4, <1>5, <1>6, <1>7, <1>8 DEF LaneStep

LEMMA PaidSignFail ==
    ASSUME Base, PaidInv, NEW l \in Lanes, SignFail(l)
    PROVE  PaidInv'
  BY ReturnCopies, PaidTables DEF SignFail, queueVars, Return, SameMoney

\* The transaction pays the copies, which are worth what the rows are.
LEMMA PaidSignOk ==
    ASSUME Base, PaidInv, NEW l \in Lanes, SignOk(l)
    PROVE  PaidInv'
<1> USE Tables
<1> DEFINE items == lane[l].items
           b == lastBatchId + 1
           ids == ItemsToProcess(items)
<1>1. ids \subseteq DOMAIN items /\ DOMAIN items \subseteq 1..lastItemId
  BY DEF ItemsToProcess, Base, TypeOK, LaneTypeOK
<1>2. /\ queue' = AssignedRows(queue, b, ids)
      /\ batchTx' = [c \in DOMAIN batchTx \cup {b} |->
                        IF c = b THEN "processing" ELSE batchTx[c]]
  BY DEF SignOk, CreateSignedTransaction
<1>3. SameMoney(queue, queue')
  BY <1>2, AssignedLemma
<1>4. \A i \in 1..lastItemId :
          queue'[i].batch_id = IF i \in ids THEN b ELSE queue[i].batch_id
  BY <1>2, AssignedIds
<1>5. /\ DOMAIN chain' = DOMAIN chain \cup {b}
      /\ chain'[b].pays = Paid(items)
      /\ \A c \in DOMAIN chain : c # b => chain'[c] = chain[c]
      /\ \A m \in Lanes : lane'[m].items = lane[m].items
  BY DEF SignOk, LaneAt
<1>6. b \notin DOMAIN chain /\ b \notin DOMAIN batchTx
  BY DEF Base, TypeOK, ChainTypeOK, QueueTypeOK
<1>7. BatchesKnown'
  BY <1>2, <1>5, <1>6 DEF PaidInv, BatchesKnown, Succeeded
<1>8. \A i \in ids : items[i].amount \subseteq Paid(items)
  BY DEF Paid
<1> HIDE DEF ids, b, items
<1>9. RowsPaidByBatch'
  <2> SUFFICES ASSUME NEW i \in DOMAIN queue', queue'[i].batch_id # Null
               PROVE  /\ queue'[i].batch_id \in DOMAIN chain'
                      /\ queue'[i].amount \subseteq chain'[queue'[i].batch_id].pays
    BY DEF RowsPaidByBatch
  <2>1. i \in 1..lastItemId /\ queue'[i].amount = queue[i].amount
    BY <1>3 DEF SameMoney
  <2>2. CASE i \in ids
    <3>1. queue[i].amount = items[i].amount
      BY <1>1, <2>2 DEF PaidInv, CopiesCurrent, items
    <3> QED BY <1>4, <1>5, <1>8, <2>1, <2>2, <3>1
  <2>3. CASE i \notin ids
    <3>1. queue'[i].batch_id = queue[i].batch_id
      BY <1>4, <2>1, <2>3
    <3> QED BY <1>5, <1>6, <2>1, <3>1 DEF PaidInv, RowsPaidByBatch
  <2> QED BY <2>2, <2>3
<1>10. CopiesCurrent'
  <2>1. \A m \in Lanes : DOMAIN lane[m].items \subseteq DOMAIN queue
    BY DEF Base, TypeOK, LaneTypeOK
  <2> QED BY <1>3, <1>5, <2>1 DEF PaidInv, CopiesCurrent, SameMoney
<1> QED BY <1>7, <1>9, <1>10 DEF PaidInv

\* An executed transaction stays executed.
LEMMA PaidChainStep ==
    ASSUME Base, PaidInv, ChainStep
    PROVE  PaidInv'
<1>1. PICK b, outcome, index : Settle(b, outcome, index)
  BY DEF ChainStep, ChainExecute, ChainActionError, ChainRefuse
<1>2. UNCHANGED <<queue, batchTx, lane>>
  BY <1>1 DEF Settle, queueVars
<1>3. /\ DOMAIN chain' = DOMAIN chain
      /\ \A c \in DOMAIN chain : /\ chain'[c].pays = chain[c].pays
                                 /\ chain[c].state = "executed" => chain'[c].state = "executed"
  BY <1>1 DEF Settle, Base, TypeOK, ChainTypeOK, Transaction
<1>4. \A c : Succeeded(c)' => chain'[c].state = "executed"
  BY <1>2, <1>3 DEF PaidInv, BatchesKnown, Succeeded
<1> QED BY <1>2, <1>3, <1>4, PaidKept DEF SameMoney

\* recoverFailedBatch in start(): no lane moves.
LEMMA PaidRecoverBatch ==
    ASSUME Base, PaidInv, NEW b, RecoverFailedBatch(b, TRUE, FALSE), UNCHANGED <<lane, chain>>
    PROVE  PaidInv'
  BY RecoverTables, PaidTables

\* recover(), after which the lanes may copy the rows anew.
LEMMA PaidRecover ==
    ASSUME Base, PaidInv, Recover, UNCHANGED chain,
           \A l \in Lanes : \A i \in DOMAIN lane'[l].items :
               \/ i \in DOMAIN lane[l].items /\ lane'[l].items[i] = lane[l].items[i]
               \/ lane'[l].items[i].amount = queue'[i].amount
    PROVE  PaidInv'
<1>1. queue' = ResetRows(queue, batchTx) /\ batchTx' = SuccessfulOnly(batchTx)
  BY DEF Recover
<1>2. SameMoney(queue, queue')
  BY <1>1, Tables, ResetLemma
<1>3. \A i \in 1..lastItemId : queue'[i].batch_id \in {queue[i].batch_id, Null}
  BY <1>1, Tables, ResetIds
<1>4. \A c \in DOMAIN batchTx' : c \in DOMAIN batchTx /\ batchTx'[c] = batchTx[c]
  BY <1>1 DEF SuccessfulOnly
<1> QED BY <1>2, <1>3, <1>4, Tables, PaidTables

\* Without merging a push adds a row that no lane holds and no batch pays.
LEMMA PaidPush ==
    ASSUME Base, PaidInv, ~ MergeExistingAccounts, NEW r, NEW d, Push(r, d),
           UNCHANGED <<lane, chain>>
    PROVE  PaidInv'
<1>1. Insert(r, d)
  BY DEF Push, Mergeable
<1>2. /\ batchTx' = batchTx /\ DOMAIN queue' = 1..(lastItemId + 1)
      /\ \A i \in DOMAIN queue : queue'[i] = queue[i]
      /\ queue'[lastItemId + 1].batch_id = Null
  BY <1>1, Tables DEF Insert, NewRow
<1>3. RowsPaidByBatch'
  BY <1>2, Tables DEF PaidInv, RowsPaidByBatch
<1>4. CopiesCurrent'
  <2>1. \A l \in Lanes : DOMAIN lane[l].items \subseteq DOMAIN queue
    BY Tables DEF Base, TypeOK, LaneTypeOK
  <2> QED BY <1>2, <2>1 DEF PaidInv, CopiesCurrent
<1> QED BY <1>2, <1>3, <1>4 DEF PaidInv, BatchesKnown, Succeeded

LEMMA PaidLoopStep ==
    ASSUME Base, PaidInv, LoopStep
    PROVE  PaidInv'
<1> USE Tables
<1>1. ASSUME NEW pending, RecoverStep(pending), UNCHANGED chain
      PROVE  PaidInv'
  <2>1. ASSUME Recover, Poll(ResetRows(queue, batchTx))
        PROVE  PaidInv'
    <3>1. queue' = ResetRows(queue, batchTx) /\ lastItemId' = lastItemId
      BY <2>1 DEF Recover
    <3>2. ResetRows(queue, batchTx) \in Rows(lastItemId, lastBatchId)
      BY ResetLemma
    <3>3. \A l \in Lanes : \A i \in DOMAIN lane'[l].items :
              lane'[l].items[i].amount = queue'[i].amount
      BY <1>1, <2>1, <3>1, <3>2, PollType DEF Base, TypeOK
    <3> QED BY <1>1, <2>1, <3>3, PaidRecover
  <2> QED BY <1>1, <2>1, PaidRecoverBatch DEF RecoverStep
<1>2. CASE Wake
  <2>1. UNCHANGED <<queue, batchTx, lastItemId, chain>> /\ Poll(queue)
    BY <1>2 DEF Wake, queueVars
  <2>2. \A l \in Lanes : \A i \in DOMAIN lane'[l].items :
            lane'[l].items[i].amount = queue'[i].amount
    BY <2>1, PollType DEF Base, TypeOK
  <2> QED BY <2>1, <2>2, PaidTables DEF SameMoney
<1>3. CASE LoopCompleted
  BY <1>3, PaidTables DEF LoopCompleted, queueVars, SameMoney
<1> QED BY <1>1, <1>2, <1>3 DEF LoopStep, StartRecovery, RecoverNext

LEMMA PaidStep ==
    ASSUME Base, PaidInv, ~ MergeExistingAccounts, [Next]_vars
    PROVE  PaidInv'
<1> USE Tables
<1>1. CASE LoopStep
  BY <1>1, PaidLoopStep
<1>2. ASSUME NEW l \in Lanes, SignOk(l) \/ SignFail(l) \/ LaneStep(l)
      PROVE  PaidInv'
  BY <1>2, PaidSignOk, PaidSignFail, PaidLaneStep
<1>3. ASSUME SameMoney(queue, queue'), batchTx' = batchTx, LoseMemory,
             \A i \in DOMAIN queue : queue'[i].batch_id = queue[i].batch_id
      PROVE  PaidInv'
  BY <1>3, IdleFields, PaidTables DEF LoseMemory
<1>4. ASSUME NEW l \in Lanes, CrashAfterStalling(l)
      PROVE  PaidInv'
  <2>1. PICK item : queue' = StalledRows(queue, item) /\ batchTx' = batchTx /\ LoseMemory
    BY <1>4, Zenon DEF CrashAfterStalling, MarkItemStalled
  <2>2. SameMoney(queue, queue') /\ \A i \in 1..lastItemId : queue'[i].batch_id = queue[i].batch_id
    BY <2>1, StalledLemma, StalledIds
  <2> QED BY <1>3, <2>1, <2>2
<1>5. CASE Crash
  BY <1>3, <1>5 DEF Crash, queueVars, SameMoney
<1>6. CASE ChainStep
  BY <1>6, PaidChainStep
<1>7. ASSUME NEW r \in Requests, NEW d \in DepositFlags, Post(r, d)
      PROVE  PaidInv'
  BY <1>7, PaidPush DEF Post, execVars
<1>8. CASE Unstall
  <2>1. PICK ids : queue' = UnstalledRows(queue, ids) /\ UNCHANGED <<batchTx, lane, chain>>
    BY <1>8 DEF Unstall, UnstallItem, UnstallItems, UnstallAll
  <2>2. SameMoney(queue, queue')
    BY <2>1, UnstalledLemma
  <2>3. \A i \in 1..lastItemId : queue'[i].batch_id \in {queue[i].batch_id, Null}
    BY <2>1, UnstalledIds
  <2> QED BY <2>1, <2>2, <2>3, PaidTables
<1>9. CASE Boot \/ WaitUntilIdle \/ UNCHANGED vars
  BY <1>9, PaidTables DEF Boot, WaitUntilIdle, vars, queueVars, execVars, SameMoney
<1> QED BY <1>1, <1>2, <1>4, <1>5, <1>6, <1>7, <1>8, <1>9 DEF Next

\* The money of a row that names a successful batch is in a transaction that the
\* chain has executed.
LEMMA PaidInvPays ==
    ASSUME Base, PaidInv
    PROVE  SuccessMeansPaid
<1> SUFFICES ASSUME NEW i \in DOMAIN queue, Succeeded(queue[i].batch_id),
                    NEW r \in queue[i].amount
             PROVE  Payments(r) # {}
  BY DEF SuccessMeansPaid
<1> DEFINE b == queue[i].batch_id
<1>1. b \in DOMAIN chain /\ chain[b].state = "executed"
  BY DEF PaidInv, BatchesKnown, Succeeded
<1>2. b # Null
  BY DEF Succeeded, Null, Base, TypeOK, QueueTypeOK
<1>3. r \in chain[b].pays
  BY <1>2 DEF PaidInv, RowsPaidByBatch
<1> QED BY <1>1, <1>3 DEF Payments, Executed

\* While nothing is merged, the chain has executed every batch that succeeded, a
\* row is paid by the transaction of its batch, and the copies of the lanes are
\* worth what the rows are: across crashes, lost answers, unstalls and refusals.
THEOREM PaidInvariant ==
    ASSUME ~ MergeExistingAccounts
    PROVE  Spec => []PaidInv
<1>1. ASSUMED
  BY QueueAssumption, ExecutorAssumption DEF ASSUMED
<1>2. Init => Base /\ PaidInv
  <2> SUFFICES ASSUME Init PROVE Base /\ PaidInv
    OBVIOUS
  <2>1. Base
    BY <1>1, BaseInit
  <2>2. PaidInv
    BY IdleFields DEF Init, QueueInit, PaidInv, BatchesKnown, RowsPaidByBatch, CopiesCurrent
  <2> QED BY <2>1, <2>2
<1>3. Base /\ PaidInv /\ [Next]_vars => (Base /\ PaidInv)'
  BY <1>1, BaseStep, PaidStep
<1> QED BY <1>2, <1>3, PTL DEF Spec

\* Every request in a row that the API reports as successful is in a transaction
\* the chain has executed, for every number of keys, requests, retries and crashes,
\* as long as push does not merge.
THEOREM ReportedSuccessIsPaid ==
    ASSUME ~ MergeExistingAccounts
    PROVE  Spec => []SuccessMeansPaid
<1>1. Base /\ PaidInv => SuccessMeansPaid
  BY PaidInvPays
<1>2. Spec => []Base
  BY TypeInvariant, PTL DEF Base
<1> QED BY <1>1, <1>2, PaidInvariant, PTL

-----------------------------------------------------------------------------
(* Payments are counted as retries *)

\* How many transactions may be on the way for the requests of a row.
Allowed(row) == row.retry_count + (IF row.batch_id = Null THEN 0 ELSE 1)

LEMMA OnTheWayFinite ==
    ASSUME Base, NEW r
    PROVE  IsFiniteSet(OnTheWay(r)) /\ Cardinality(OnTheWay(r)) \in Nat
<1>1. OnTheWay(r) \subseteq 1..lastBatchId
  BY DEF OnTheWay, Base, TypeOK, ChainTypeOK
<1>2. IsFiniteSet(1..lastBatchId)
  BY Tables, FS_Interval, 1 \in Int
<1>3. IsFiniteSet(OnTheWay(r))
  BY <1>1, <1>2, FS_Subset
<1> QED BY <1>3, FS_CardinalityType

LEMMA AllowedType ==
    ASSUME Base, NEW i \in 1..lastItemId
    PROVE  Allowed(queue[i]) \in Nat
<1>1. queue[i].retry_count \in Nat
  BY DEF Base, TypeOK, QueueTypeOK, Row
<1> QED BY <1>1 DEF Allowed

\* The invariant in terms of Allowed, and of the one row that a ticket names.
LEMMA CountMeans ==
    RetriesCountPayments <=>
        \A r \in Requests : IF ticket[r] = Null
                            THEN OnTheWay(r) = {}
                            ELSE Cardinality(OnTheWay(r)) <= Allowed(queue[ticket[r]])
  BY DEF RetriesCountPayments, Allowed

\* No transaction is added, and no row may have fewer of them.
LEMMA CountKept ==
    ASSUME Base, RetriesCountPayments, Base',
           \A r \in Requests : OnTheWay(r)' \subseteq OnTheWay(r),
           \A r \in Requests : ticket[r] # Null => ticket'[r] = ticket[r],
           \A i \in 1..lastItemId : Allowed(queue'[i]) >= Allowed(queue[i])
    PROVE  RetriesCountPayments'
<1> SUFFICES ASSUME NEW r \in Requests
             PROVE  IF ticket'[r] = Null
                    THEN OnTheWay(r)' = {}
                    ELSE Cardinality(OnTheWay(r)') <= Allowed(queue'[ticket'[r]])
  BY DEF RetriesCountPayments, Allowed
<1>1. CASE ticket[r] = Null
  <2>1. OnTheWay(r)' = {} /\ Cardinality({}) = 0
    BY <1>1, FS_EmptySet DEF RetriesCountPayments
  <2>2. ticket'[r] # Null => Allowed(queue'[ticket'[r]]) \in Nat
    <3>1. ticket'[r] # Null => ticket'[r] \in 1..lastItemId'
      BY DEF Base, TypeOK, QueueTypeOK, Null
    <3>2. \A i \in 1..lastItemId' : queue'[i].retry_count \in Nat
      BY DEF Base, TypeOK, QueueTypeOK, Row
    <3> QED BY <3>1, <3>2 DEF Allowed
  <2> QED BY <2>1, <2>2
<1>2. CASE ticket[r] # Null
  <2>1. ticket[r] \in 1..lastItemId /\ ticket'[r] = ticket[r]
    BY <1>2 DEF Base, TypeOK, QueueTypeOK, Null
  <2>2. Cardinality(OnTheWay(r)) <= Allowed(queue[ticket[r]])
    BY <1>2, CountMeans
  <2>3. /\ Cardinality(OnTheWay(r)') <= Cardinality(OnTheWay(r))
        /\ Cardinality(OnTheWay(r)') \in Nat /\ Cardinality(OnTheWay(r)) \in Nat
    BY OnTheWayFinite, FS_Subset, FS_CardinalityType
  <2>4. Allowed(queue[ticket[r]]) \in Nat
    BY <2>1, AllowedType
  <2>5. Allowed(queue'[ticket[r]]) >= Allowed(queue[ticket[r]])
    BY <2>1
  <2>6. Allowed(queue'[ticket[r]]) \in Int
    <3>1. ticket'[r] \in 1..lastItemId'
      BY <1>2, <2>1 DEF Base, TypeOK, QueueTypeOK, Null
    <3>2. queue'[ticket'[r]].retry_count \in Nat
      BY <3>1 DEF Base, TypeOK, QueueTypeOK, Row
    <3> QED BY <2>1, <3>2 DEF Allowed
  <2> QED BY <1>2, <2>1, <2>2, <2>3, <2>4, <2>5, <2>6
<1> QED BY <1>1, <1>2

\* A row that is given back is allowed as many as before: its batch has become a
\* retry.
LEMMA AllowedKept ==
    ASSUME Base, NEW b, NEW S,
           GivenBack(queue, queue', b, S) \/ SameBatches(queue, queue'), b # Null
    PROVE  \A i \in 1..lastItemId : Allowed(queue'[i]) >= Allowed(queue[i])
<1> SUFFICES ASSUME NEW i \in 1..lastItemId
             PROVE  Allowed(queue'[i]) >= Allowed(queue[i])
  OBVIOUS
<1>1. queue[i].retry_count \in Nat
  BY DEF Base, TypeOK, QueueTypeOK, Row
<1>2. CASE GivenBack(queue, queue', b, S)
  <2>1. /\ queue'[i].batch_id = IF queue[i].batch_id = b THEN Null ELSE queue[i].batch_id
        /\ queue'[i].retry_count = IF queue[i].batch_id = b THEN queue[i].retry_count + 1
                                   ELSE queue[i].retry_count
    BY <1>2, Tables, Zenon DEF GivenBack
  <2> QED BY <1>1, <2>1 DEF Allowed
<1>3. CASE SameBatches(queue, queue')
  BY <1>1, <1>3, Tables DEF SameBatches, Allowed
<1> QED BY <1>2, <1>3

LEMMA CountLaneStep ==
    ASSUME Base, RetriesCountPayments, Base', NEW l \in Lanes, LaneStep(l)
    PROVE  RetriesCountPayments'
<1>1. lane[l].batch # Null
  <2>1. lane[l].pc \in {"sending", "backoff"}
    BY LaneStepCases
  <2> QED BY <2>1 DEF Base, TypeOK, LaneTypeOK, ChainTypeOK, Null
<1>2. /\ \E S : GivenBack(queue, queue', lane[l].batch, S) \/ SameBatches(queue, queue')
      /\ UNCHANGED <<ticket, chain>>
  BY LaneStepCases DEF GivesUp, Leaves, Return, Backoff, queueVars, SameBatches
<1>3. \A i \in 1..lastItemId : Allowed(queue'[i]) >= Allowed(queue[i])
  BY <1>1, <1>2, AllowedKept
<1> QED BY <1>2, <1>3, CountKept DEF OnTheWay

\* The new transaction is the one of the batch that its rows were put in.
LEMMA CountSignOk ==
    ASSUME Base, LaneInv, RetriesCountPayments, Base', NEW l \in Lanes, SignOk(l)
    PROVE  RetriesCountPayments'
<1> DEFINE items == lane[l].items
           b == lastBatchId + 1
           ids == ItemsToProcess(items)
<1>1. /\ lane[l].batch = Null /\ ids \subseteq DOMAIN items /\ DOMAIN items \subseteq 1..lastItemId
  BY DEF SignOk, Lane, ItemsToProcess, Base, TypeOK, LaneTypeOK
<1>2. queue' = AssignedRows(queue, b, ids) /\ ticket' = ticket
  BY DEF SignOk, CreateSignedTransaction
<1>3. \A i \in 1..lastItemId :
          /\ queue'[i].batch_id = IF i \in ids THEN b ELSE queue[i].batch_id
          /\ queue'[i].retry_count = queue[i].retry_count
          /\ queue[i].retry_count \in Nat
  BY <1>2, Tables DEF AssignedRows, Update, Rows, Row
<1>4. \A i \in ids : queue[i].batch_id = Null
  BY <1>1 DEF LaneInv, LanesOwnRows
<1>5. /\ DOMAIN chain' = DOMAIN chain \cup {b}
      /\ chain'[b].pays = Paid(items)
      /\ \A c \in DOMAIN chain : c # b => chain'[c] = chain[c]
  BY DEF SignOk
<1>6. b \notin DOMAIN chain /\ b # Null
  BY DEF Base, TypeOK, ChainTypeOK, QueueTypeOK, Null
<1> HIDE DEF b
<1>7. ASSUME NEW r \in Paid(items)
      PROVE  ticket[r] \in ids
  <2>1. PICK i \in ids : r \in items[i].amount
    BY DEF Paid
  <2> QED BY <1>1, <2>1 DEF LaneInv, CopiesHold
<1>8. \A r : OnTheWay(r)' \subseteq IF r \in Paid(items) THEN OnTheWay(r) \cup {b} ELSE OnTheWay(r)
  BY <1>5, <1>6 DEF OnTheWay
<1> HIDE DEF ids, items
<1> SUFFICES ASSUME NEW r \in Requests
             PROVE  IF ticket[r] = Null
                    THEN OnTheWay(r)' = {}
                    ELSE Cardinality(OnTheWay(r)') <= Allowed(queue'[ticket[r]])
  BY <1>2 DEF RetriesCountPayments, Allowed
<1>9. ticket[r] # Null => ticket[r] \in 1..lastItemId
  BY DEF Base, TypeOK, QueueTypeOK, Null
<1>10. /\ IsFiniteSet(OnTheWay(r)) /\ Cardinality(OnTheWay(r)) \in Nat
       /\ Cardinality(OnTheWay(r)') \in Nat
  <2>1. IsFiniteSet(OnTheWay(r)) /\ Cardinality(OnTheWay(r)) \in Nat
    BY OnTheWayFinite
  <2>2. IsFiniteSet(OnTheWay(r) \cup {b})
    BY <2>1, FS_AddElement
  <2>3. OnTheWay(r)' \subseteq OnTheWay(r) \cup {b}
    BY <1>8
  <2>4. IsFiniteSet(OnTheWay(r)')
    BY <2>2, <2>3, FS_Subset
  <2> QED BY <2>1, <2>4, FS_CardinalityType
<1>11. CASE r \in Paid(items)
  <2>1. ticket[r] \in ids /\ ticket[r] \in 1..lastItemId
    BY <1>1, <1>7, <1>11
  <2>2. Cardinality(OnTheWay(r)) <= queue[ticket[r]].retry_count
    BY <1>3, <1>4, <2>1 DEF RetriesCountPayments, Null
  <2>3. b \notin OnTheWay(r)
    BY <1>6 DEF OnTheWay
  <2>4. /\ IsFiniteSet(OnTheWay(r) \cup {b})
        /\ Cardinality(OnTheWay(r) \cup {b}) = Cardinality(OnTheWay(r)) + 1
    BY <1>10, <2>3, FS_AddElement
  <2>5. Cardinality(OnTheWay(r)') <= Cardinality(OnTheWay(r)) + 1
    BY <1>8, <1>11, <2>4, FS_Subset
  <2>6. Allowed(queue'[ticket[r]]) = queue[ticket[r]].retry_count + 1
    BY <1>3, <1>6, <2>1 DEF Allowed
  <2> QED BY <1>3, <1>10, <2>1, <2>2, <2>5, <2>6 DEF Null
<1>12. CASE r \notin Paid(items)
  <2>1. OnTheWay(r)' \subseteq OnTheWay(r)
    BY <1>8, <1>12
  <2>2. Cardinality(OnTheWay(r)') <= Cardinality(OnTheWay(r))
    BY <1>10, <2>1, FS_Subset
  <2>3. ticket[r] # Null => Allowed(queue'[ticket[r]]) >= Allowed(queue[ticket[r]])
    BY <1>3, <1>4, <1>6, <1>9 DEF Allowed
  <2>4. ticket[r] # Null => /\ Allowed(queue'[ticket[r]]) \in Nat
                            /\ Allowed(queue[ticket[r]]) \in Nat
    BY <1>3, <1>9 DEF Allowed
  <2>5. IF ticket[r] = Null THEN OnTheWay(r) = {}
        ELSE Cardinality(OnTheWay(r)) <= Allowed(queue[ticket[r]])
    BY CountMeans
  <2> QED BY <1>10, <2>1, <2>2, <2>3, <2>4, <2>5
<1> QED BY <1>11, <1>12

\* The chain adds nothing: what it refuses is not on the way any more.
LEMMA CountSettle ==
    ASSUME Base, RetriesCountPayments, Base', NEW b, NEW outcome, NEW index,
           Settle(b, outcome, index)
    PROVE  RetriesCountPayments'
<1>1. UNCHANGED <<queue, ticket>>
  BY DEF Settle, queueVars
<1>2. /\ DOMAIN chain' = DOMAIN chain
      /\ \A c \in DOMAIN chain :
            /\ chain'[c].pays = chain[c].pays
            /\ chain'[c].state \in {"sent", "executed"} => chain[c].state \in {"sent", "executed"}
  BY DEF Settle, Base, TypeOK, ChainTypeOK, Transaction
<1>3. \A r \in Requests : OnTheWay(r)' \subseteq OnTheWay(r)
  BY <1>2 DEF OnTheWay
<1>4. \A i \in 1..lastItemId : Allowed(queue'[i]) >= Allowed(queue[i])
  BY <1>1, AllowedType
<1> QED BY <1>1, <1>3, <1>4, CountKept

\* start() frees rows and counts each time; nothing is processing any more when it
\* comes to recover().
LEMMA CountRecoverStep ==
    ASSUME Base, RetriesCountPayments, Base', RecoverStep(PendingBatchTransactions),
           UNCHANGED chain
    PROVE  RetriesCountPayments'
<1>1. ASSUME NEW b \in PendingBatchTransactions, RecoverFailedBatch(b, TRUE, FALSE)
      PROVE  RetriesCountPayments'
  <2>1. GivenBack(queue, queue', b, {}) /\ ticket' = ticket
    BY <1>1, Tables, RecoveredGivesBack DEF RecoverFailedBatch
  <2>2. b # Null
    BY DEF PendingBatchTransactions, Base, TypeOK, QueueTypeOK, Null
  <2>3. \A i \in 1..lastItemId : Allowed(queue'[i]) >= Allowed(queue[i])
    BY <2>1, <2>2, AllowedKept
  <2> QED BY <2>1, <2>3, CountKept DEF OnTheWay
<1>2. ASSUME PendingBatchTransactions = {}, Recover
      PROVE  RetriesCountPayments'
  <2>1. queue' = ResetRows(queue, batchTx) /\ ticket' = ticket
    BY <1>2 DEF Recover
  <2>2. \A i \in 1..lastItemId : queue'[i] = queue[i]
    BY <1>2, <2>1, Tables DEF ResetRows, Update, PendingBatchTransactions
  <2>3. \A i \in 1..lastItemId : Allowed(queue'[i]) >= Allowed(queue[i])
    BY <2>2, AllowedType
  <2> QED BY <2>1, <2>3, CountKept DEF OnTheWay
<1> QED BY <1>1, <1>2 DEF RecoverStep

LEMMA CountStep ==
    ASSUME ASSUMED, MaxUnstalls = 0, Base, LaneInv, RetriesCountPayments, [Next]_vars
    PROVE  RetriesCountPayments'
<1>1. Base'
  BY BaseStep
<1>2. ASSUME UNCHANGED <<ticket, chain>>, SameBatches(queue, queue')
      PROVE  RetriesCountPayments'
  <2>1. \A i \in 1..lastItemId : Allowed(queue'[i]) >= Allowed(queue[i])
    BY <1>2, AllowedKept, 1 # Null DEF Null
  <2> QED BY <1>1, <1>2, <2>1, CountKept DEF OnTheWay
<1>3. CASE UNCHANGED <<queue, ticket, chain>>
  BY <1>2, <1>3 DEF SameBatches
<1>4. CASE LoopStep
  <2>1. CASE StartRecovery
    BY <1>1, <2>1, CountRecoverStep DEF StartRecovery
  <2>2. CASE RecoverNext
    BY <1>1, <2>2, CountRecoverStep DEF RecoverNext, LaneInv, RecoveryExact
  <2>3. CASE Wake \/ LoopCompleted
    BY <1>3, <2>3 DEF Wake, LoopCompleted, queueVars
  <2> QED BY <1>4, <2>1, <2>2, <2>3 DEF LoopStep
<1>5. ASSUME NEW l \in Lanes, SignOk(l) \/ LaneStep(l)
      PROVE  RetriesCountPayments'
  BY <1>1, <1>5, CountSignOk, CountLaneStep
<1>6. ASSUME NEW l \in Lanes, SignFail(l)
      PROVE  RetriesCountPayments'
  BY <1>3, <1>6 DEF SignFail, Return, queueVars
<1>7. ASSUME NEW l \in Lanes, CrashAfterStalling(l)
      PROVE  RetriesCountPayments'
  <2>1. PICK item : queue' = StalledRows(queue, item) /\ UNCHANGED <<ticket, chain>>
    BY <1>7, Zenon DEF CrashAfterStalling, MarkItemStalled, LoseMemory
  <2>2. \A i \in 1..lastItemId : Allowed(queue'[i]) = Allowed(queue[i])
    BY <2>1, Tables DEF StalledRows, Update, Rows, Row, Allowed
  <2>3. \A i \in 1..lastItemId : Allowed(queue'[i]) >= Allowed(queue[i])
    BY <2>2, AllowedType
  <2> QED BY <1>1, <2>1, <2>3, CountKept DEF OnTheWay
<1>8. CASE ChainStep
  BY <1>1, <1>8, CountSettle DEF ChainStep, ChainExecute, ChainActionError, ChainRefuse
<1>9. ASSUME NEW r \in Requests, NEW d \in DepositFlags, Post(r, d)
      PROVE  RetriesCountPayments'
  <2>1. ticket[r] = Null /\ chain' = chain
    BY <1>9 DEF Post, Push, execVars
  <2>2. \A s \in Requests : s # r => ticket'[s] = ticket[s]
    BY <1>9 DEF Post, Push, Merge, Insert, Base, TypeOK, QueueTypeOK
  <2>3. \A i \in 1..lastItemId : Allowed(queue'[i]) = Allowed(queue[i])
    <3>1. ASSUME NEW j \in Mergeable(Receiver[r]), Merge(r, j, d), NEW i \in 1..lastItemId
          PROVE  Allowed(queue'[i]) = Allowed(queue[i])
      BY <3>1, Tables DEF Merge, MergedRows, Update, Rows, Row, Allowed
    <3>2. ASSUME Insert(r, d), NEW i \in 1..lastItemId
          PROVE  Allowed(queue'[i]) = Allowed(queue[i])
      BY <3>2, Tables DEF Insert
    <3> QED BY <1>9, <3>1, <3>2 DEF Post, Push
  <2>4. \A i \in 1..lastItemId : Allowed(queue'[i]) >= Allowed(queue[i])
    BY <2>3, AllowedType
  <2> QED BY <1>1, <2>1, <2>2, <2>4, CountKept DEF OnTheWay
<1>10. ~ Unstall
  BY DEF Unstall, Base, TypeOK
<1>11. CASE Boot \/ Crash \/ WaitUntilIdle \/ UNCHANGED vars
  BY <1>3, <1>11 DEF Boot, Crash, LoseMemory, WaitUntilIdle, vars, queueVars, execVars
<1> QED BY <1>4, <1>5, <1>6, <1>7, <1>8, <1>9, <1>10, <1>11 DEF Next

\* A transaction that pays a row and was not refused is counted as a retry of the
\* row, except the one of the batch that the row is in: across crashes, lost
\* answers, refusals and merging, as long as no operator unstalls.
THEOREM RetriesInvariant ==
    ASSUME MaxUnstalls = 0
    PROVE  Spec => []RetriesCountPayments
<1>1. ASSUMED
  BY QueueAssumption, ExecutorAssumption DEF ASSUMED
<1>2. Init => RetriesCountPayments
  BY DEF Init, QueueInit, RetriesCountPayments, OnTheWay, EmptyFunction
<1>3. Base /\ LaneInv /\ RetriesCountPayments /\ [Next]_vars => RetriesCountPayments'
  BY <1>1, CountStep
<1> QED BY <1>2, <1>3, LaneInvariant, PTL DEF Spec

\* However often the service crashes and however many answers are lost, no request
\* is in more executed transactions than its row has retries, and one: the most
\* that the tokens of a transfer can be lost again is bounded by its retry count.
THEOREM PaidOncePerRetry ==
    ASSUME MaxUnstalls = 0
    PROVE  Spec => []PaymentsWithinRetries
<1>1. Base /\ RetriesCountPayments => PaymentsWithinRetries
  <2> SUFFICES ASSUME Base, RetriesCountPayments, NEW r \in Requests, ticket[r] # Null
               PROVE  Cardinality(Payments(r)) <= queue[ticket[r]].retry_count + 1
    BY DEF PaymentsWithinRetries
  <2>1. Payments(r) \subseteq OnTheWay(r)
    BY DEF Payments, Executed, OnTheWay
  <2>2. /\ Cardinality(Payments(r)) <= Cardinality(OnTheWay(r))
        /\ Cardinality(Payments(r)) \in Nat /\ Cardinality(OnTheWay(r)) \in Nat
    BY <2>1, OnTheWayFinite, FS_Subset, FS_CardinalityType
  <2>3. ticket[r] \in 1..lastItemId
    BY DEF Base, TypeOK, QueueTypeOK, Null
  <2>4. queue[ticket[r]].retry_count \in Nat
    BY <2>3 DEF Base, TypeOK, QueueTypeOK, Row
  <2> QED BY <2>2, <2>4 DEF RetriesCountPayments
<1>2. Spec => []Base
  BY TypeInvariant, PTL DEF Base
<1> QED BY <1>1, <1>2, RetriesInvariant, PTL

-----------------------------------------------------------------------------
(* Nothing is paid twice *)

\* Nothing takes a row out of its batch before the chain has refused the transaction:
\* no crash, no lost answer, no unstall of a row that another lane is about to send.
\* BugUnstallPaysTwice shows that the last one is needed.
Undisturbed == MaxCrashes = 0 /\ "network" \notin Faults /\ Uncapped

Live == {"sent", "executed"}

\* No transaction is added, and rows leave only batches that the chain has refused.
LEMMA PinnedKept ==
    ASSUME Base, PaidRowsPinned,
           \A r \in Requests : OnTheWay(r)' \subseteq OnTheWay(r),
           \A r \in Requests : ticket[r] # Null => ticket'[r] = ticket[r],
           \A i \in 1..lastItemId :
               queue'[i].batch_id # queue[i].batch_id =>
                   \/ queue[i].batch_id \notin DOMAIN chain
                   \/ chain[queue[i].batch_id].state \notin Live
    PROVE  PaidRowsPinned'
<1> SUFFICES ASSUME NEW r \in Requests, NEW b \in OnTheWay(r)'
             PROVE  ticket'[r] # Null /\ queue'[ticket'[r]].batch_id = b
  BY DEF PaidRowsPinned
<1>1. b \in DOMAIN chain /\ chain[b].state \in Live /\ b \in OnTheWay(r)
  BY DEF OnTheWay, Live
<1>2. ticket[r] # Null /\ ticket'[r] = ticket[r] /\ queue[ticket[r]].batch_id = b
  BY <1>1 DEF PaidRowsPinned
<1>3. ticket[r] \in 1..lastItemId
  BY <1>2 DEF Base, TypeOK, QueueTypeOK, Null
<1> QED BY <1>1, <1>2, <1>3

\* The rows of the new batch were in none, so no live transaction pays them, and
\* none of them was stalled.
LEMMA OnceSignOk ==
    ASSUME Base, LaneInv, SigningUnstalled, OnceInv, NEW l \in Lanes, SignOk(l)
    PROVE  OnceInv'
<1> DEFINE items == lane[l].items
           b == lastBatchId + 1
           ids == ItemsToProcess(items)
<1>1. /\ lane[l].pc = "signing" /\ lane[l].batch = Null
      /\ ids \subseteq DOMAIN items /\ DOMAIN items \subseteq 1..lastItemId
  BY DEF SignOk, Lane, ItemsToProcess, Base, TypeOK, LaneTypeOK
<1>2. queue' = AssignedRows(queue, b, ids) /\ ticket' = ticket /\ phase' = phase
  BY DEF SignOk, CreateSignedTransaction
<1>3. /\ DOMAIN queue' = 1..lastItemId
      /\ \A i \in 1..lastItemId :
            /\ queue'[i].batch_id = IF i \in ids THEN b ELSE queue[i].batch_id
            /\ queue'[i].is_stalled = queue[i].is_stalled
  BY <1>2, Tables DEF AssignedRows, Update, Rows, Row
<1>4. \A i \in ids : queue[i].batch_id = Null /\ ~ queue[i].is_stalled
  BY <1>1 DEF LaneInv, LanesOwnRows, SigningUnstalled
<1>5. /\ DOMAIN chain' = DOMAIN chain \cup {b}
      /\ chain'[b].pays = Paid(items)
      /\ \A c \in DOMAIN chain : c # b => chain'[c] = chain[c]
  BY DEF SignOk
<1>6. DOMAIN chain \subseteq 1..lastBatchId /\ lastBatchId \in Nat
  BY DEF Base, TypeOK, ChainTypeOK, QueueTypeOK
<1>7. ASSUME NEW r \in Paid(items)
      PROVE  ticket[r] \in ids
  <2>1. PICK i \in ids : r \in items[i].amount
    BY DEF Paid
  <2> QED BY <1>1, <2>1 DEF LaneInv, CopiesHold
<1> HIDE DEF ids
<1>8. PaidRowsPinned'
  <2> SUFFICES ASSUME NEW r \in Requests, NEW c \in OnTheWay(r)'
               PROVE  ticket[r] # Null /\ queue'[ticket[r]].batch_id = c
    BY <1>2 DEF PaidRowsPinned
  <2>1. CASE c = b
    <3>1. ticket[r] \in ids
      BY <1>5, <1>7, <2>1 DEF OnTheWay
    <3> QED BY <1>1, <1>3, <2>1, <3>1 DEF Null
  <2>2. CASE c # b
    <3>1. c \in OnTheWay(r) /\ c # Null
      BY <1>5, <1>6, <2>2 DEF OnTheWay, Null
    <3>2. ticket[r] # Null /\ queue[ticket[r]].batch_id = c
      BY <3>1 DEF OnceInv, PaidRowsPinned
    <3>3. ticket[r] \in 1..lastItemId /\ ticket[r] \notin ids
      BY <1>4, <3>1, <3>2 DEF Base, TypeOK, QueueTypeOK, Null
    <3> QED BY <1>3, <3>2, <3>3
  <2> QED BY <2>1, <2>2
<1>9. BatchedUnstalled'
  BY <1>3, <1>4, Tables DEF OnceInv, BatchedUnstalled
<1>10. NothingSentBeforeLoop'
  BY <1>1, <1>2, LaneBusy DEF NothingSentBeforeLoop
<1> QED BY <1>8, <1>9, <1>10 DEF OnceInv

\* What is given back was refused; the item that is stalled is given back with it.
LEMMA OnceLaneStep ==
    ASSUME Undisturbed, Base, LaneInv, FailingIndex, OnceInv, NEW l \in Lanes, LaneStep(l)
    PROVE  OnceInv'
<1> USE Tables
<1>1. UNCHANGED <<ticket, chain, phase>>
  BY LaneStepCases DEF GivesUp, Leaves, Return, Backoff, queueVars
<1>2. NothingSentBeforeLoop'
  BY <1>1 DEF OnceInv, NothingSentBeforeLoop
<1>3. CASE SameBatches(queue, queue')
  <2>1. PaidRowsPinned'
    BY <1>1, <1>3, PinnedKept DEF OnceInv, OnTheWay, SameBatches
  <2>2. BatchedUnstalled'
    BY <1>3 DEF OnceInv, BatchedUnstalled, SameBatches
  <2> QED BY <1>2, <2>1, <2>2 DEF OnceInv
<1>4. ASSUME NEW S, GivesUp(l, S), chain[lane[l].batch].state \notin Live,
             S \subseteq DOMAIN lane[l].items
      PROVE  OnceInv'
  <2>1. \A i \in DOMAIN queue :
            /\ queue'[i].batch_id = IF queue[i].batch_id = lane[l].batch THEN Null
                                    ELSE queue[i].batch_id
            /\ queue'[i].is_stalled = (\/ queue[i].is_stalled
                                       \/ i \in S
                                       \/ queue'[i].batch_id = Null
                                          /\ queue'[i].retry_count > MaxRetries)
    BY <1>4 DEF GivesUp, GivenBack
  <2>2. PaidRowsPinned'
    BY <1>1, <1>4, <2>1, PinnedKept DEF OnceInv, OnTheWay
  <2>3. \A i \in S : queue'[i].batch_id = Null
    <3>1. \A i \in S : i \in DOMAIN queue /\ queue[i].batch_id \in {Null, lane[l].batch}
      BY <1>4 DEF LaneInv, LanesOwnRows, Base, TypeOK, LaneTypeOK
    <3> QED BY <2>1, <3>1
  <2>4. BatchedUnstalled'
    <3>1. DOMAIN queue' = DOMAIN queue
      BY <1>4 DEF GivesUp, GivenBack
    <3> SUFFICES ASSUME NEW i \in DOMAIN queue, queue'[i].batch_id # Null
                 PROVE  ~ queue'[i].is_stalled
      BY <3>1 DEF BatchedUnstalled
    <3>2. queue[i].batch_id # Null /\ i \notin S
      BY <2>1, <2>3
    <3> QED BY <2>1, <3>2 DEF OnceInv, BatchedUnstalled
  <2> QED BY <1>2, <2>2, <2>4 DEF OnceInv
<1>5. CASE RespondActionError(l)
           /\ GivesUp(l, {ItemAt(lane[l].items, chain[lane[l].batch].at)})
  <2>1. ItemAt(lane[l].items, chain[lane[l].batch].at) \in DOMAIN lane[l].items
    BY <1>5, FailingItem DEF RespondActionError
  <2> QED BY <1>4, <1>5, <2>1 DEF RespondActionError, Answered, Live
<1>6. CASE (RespondIndexOutOfRange(l) \/ RespondInvalidTx(l)) /\ GivesUp(l, {})
  BY <1>4, <1>6 DEF RespondIndexOutOfRange, RespondInvalidTx, Answered, Live
<1>7. ~ NetworkError(l)
  BY DEF NetworkError, Undisturbed
<1>8. CASE Leaves(l) \/ UNCHANGED queueVars
  BY <1>3, <1>8 DEF Leaves, SameBatches, queueVars
<1> QED BY <1>5, <1>6, <1>7, <1>8, LaneStepCases

\* The chain executes a transaction that was pinned already, or refuses it.
LEMMA OnceSettle ==
    ASSUME Base, OnceInv, NEW b, NEW outcome, NEW index, Settle(b, outcome, index)
    PROVE  OnceInv'
<1>1. UNCHANGED <<queue, ticket, phase>>
  BY DEF Settle, queueVars
<1>2. /\ DOMAIN chain' = DOMAIN chain
      /\ \A c \in DOMAIN chain : /\ chain'[c].pays = chain[c].pays
                                 /\ chain'[c].state \in Live => chain[c].state \in Live
  BY DEF Settle, Live, Base, TypeOK, ChainTypeOK, Transaction
<1>3. \A r \in Requests : OnTheWay(r)' \subseteq OnTheWay(r)
  BY <1>2 DEF OnTheWay, Live
<1>4. PaidRowsPinned'
  BY <1>1, <1>3, PinnedKept DEF OnceInv
<1> QED BY <1>1, <1>2, <1>4 DEF OnceInv, BatchedUnstalled, NothingSentBeforeLoop

\* start(): nothing has been sent, so rows may be freed and peeked.
LEMMA OnceLoopStep ==
    ASSUME Base, OnceInv, LoopStep
    PROVE  OnceInv'
<1> USE Tables
<1>1. ASSUME NEW pending, RecoverStep(pending), UNCHANGED chain,
             phase \in {"starting", "recovering"}
      PROVE  OnceInv'
  <2>1. DOMAIN chain = {}
    BY <1>1 DEF OnceInv, NothingSentBeforeLoop
  <2>2. PaidRowsPinned' /\ NothingSentBeforeLoop'
    BY <1>1, <2>1 DEF PaidRowsPinned, NothingSentBeforeLoop, OnTheWay
  <2>3. ASSUME NEW b, RecoverFailedBatch(b, TRUE, FALSE)
        PROVE  BatchedUnstalled'
    <3>1. GivenBack(queue, queue', b, {})
      BY <2>3, RecoveredGivesBack DEF RecoverFailedBatch
    <3> QED BY <3>1 DEF GivenBack, OnceInv, BatchedUnstalled
  <2>4. ASSUME Recover
        PROVE  BatchedUnstalled'
    <3>1. DOMAIN queue' = DOMAIN queue
      BY <2>4 DEF Recover, ResetRows, Update
    <3>2. \A i \in DOMAIN queue : queue'[i] = queue[i] \/ queue'[i].batch_id = Null
      BY <2>4 DEF Recover, ResetRows, Update, Rows, Row
    <3> QED BY <3>1, <3>2 DEF OnceInv, BatchedUnstalled
  <2> QED BY <1>1, <2>2, <2>3, <2>4 DEF RecoverStep, OnceInv
<1>2. CASE Wake \/ LoopCompleted
  <2>1. UNCHANGED <<queue, ticket, chain>> /\ phase' \in {"sleeping", "batching"}
    BY <1>2, Zenon DEF Wake, LoopCompleted, queueVars, Poll, EndIteration
  <2> QED BY <2>1 DEF OnceInv, PaidRowsPinned, BatchedUnstalled, NothingSentBeforeLoop, OnTheWay
<1> QED BY <1>1, <1>2 DEF LoopStep, StartRecovery, RecoverNext

\* A push touches no batch, and the request it adds is in no transaction.
LEMMA OncePost ==
    ASSUME Base, OnceInv, NEW r \in Requests, NEW d \in DepositFlags, Post(r, d)
    PROVE  OnceInv'
<1> USE Tables
<1>1. ticket[r] = Null /\ UNCHANGED <<chain, phase>>
  BY DEF Post, Push, execVars
<1>2. \A s \in Requests : ticket[s] # Null => ticket'[s] = ticket[s]
  BY <1>1 DEF Post, Push, Merge, Insert, Base, TypeOK, QueueTypeOK
<1>3. /\ \A i \in 1..lastItemId : /\ queue'[i].batch_id = queue[i].batch_id
                                  /\ queue'[i].is_stalled = queue[i].is_stalled
      /\ \A i \in DOMAIN queue' : i \notin 1..lastItemId => queue'[i].batch_id = Null
  <2>1. ASSUME NEW j \in Mergeable(Receiver[r]), Merge(r, j, d)
        PROVE  /\ DOMAIN queue' = 1..lastItemId
               /\ \A i \in 1..lastItemId : /\ queue'[i].batch_id = queue[i].batch_id
                                           /\ queue'[i].is_stalled = queue[i].is_stalled
    BY <2>1 DEF Merge, MergedRows, Update, Rows, Row
  <2>2. ASSUME Insert(r, d)
        PROVE  /\ \A i \in 1..lastItemId : queue'[i] = queue[i]
               /\ \A i \in DOMAIN queue' : i \notin 1..lastItemId => queue'[i].batch_id = Null
    BY <2>2 DEF Insert, NewRow
  <2> QED BY <2>1, <2>2 DEF Post, Push
<1>4. PaidRowsPinned'
  BY <1>1, <1>2, <1>3, PinnedKept DEF OnceInv, OnTheWay
<1>5. BatchedUnstalled'
  BY <1>3 DEF OnceInv, BatchedUnstalled
<1> QED BY <1>1, <1>4, <1>5 DEF OnceInv, NothingSentBeforeLoop

\* What is unstalled is in no batch.
LEMMA OnceUnstall ==
    ASSUME Base, OnceInv, Unstall
    PROVE  OnceInv'
<1> USE Tables
<1>1. PICK ids : /\ queue' = UnstalledRows(queue, ids)
                 /\ UNCHANGED <<ticket, chain, phase>>
  BY DEF Unstall, UnstallItem, UnstallItems, UnstallAll
<1>2. /\ DOMAIN queue' = DOMAIN queue
      /\ \A i \in DOMAIN queue :
            \/ queue'[i] = queue[i]
            \/ queue[i].is_stalled /\ queue'[i].batch_id = Null
  BY <1>1 DEF UnstalledRows, Update, Stalled, Rows, Row
<1>3. \A i \in DOMAIN queue : queue'[i].batch_id = queue[i].batch_id
  BY <1>2 DEF OnceInv, BatchedUnstalled
<1>4. PaidRowsPinned'
  BY <1>1, <1>3, PinnedKept DEF OnceInv, OnTheWay
<1>5. BatchedUnstalled'
  BY <1>2 DEF OnceInv, BatchedUnstalled
<1> QED BY <1>1, <1>4, <1>5 DEF OnceInv, NothingSentBeforeLoop

LEMMA OnceStep ==
    ASSUME Undisturbed, Base, LaneInv, FailingIndex, SigningUnstalled, OnceInv, [Next]_vars
    PROVE  OnceInv'
<1>1. CASE UNCHANGED <<queue, ticket, chain>> /\ (phase' = phase \/ phase = "down")
  BY <1>1 DEF OnceInv, PaidRowsPinned, BatchedUnstalled, NothingSentBeforeLoop, OnTheWay
<1>2. CASE LoopStep
  BY <1>2, OnceLoopStep
<1>3. ASSUME NEW l \in Lanes, SignOk(l) \/ LaneStep(l)
      PROVE  OnceInv'
  BY <1>3, OnceSignOk, OnceLaneStep
<1>4. ASSUME NEW l \in Lanes, SignFail(l)
      PROVE  OnceInv'
  BY <1>1, <1>4 DEF SignFail, Return, queueVars
<1>5. ~ LoseMemory
  <2>1. crashes = 0
    BY DEF Undisturbed, Base, TypeOK
  <2> QED BY <2>1 DEF LoseMemory, Undisturbed
<1>6. CASE ChainStep
  BY <1>6, OnceSettle DEF ChainStep, ChainExecute, ChainActionError, ChainRefuse
<1>7. ASSUME NEW r \in Requests, NEW d \in DepositFlags, Post(r, d)
      PROVE  OnceInv'
  BY <1>7, OncePost
<1>8. CASE Unstall
  BY <1>8, OnceUnstall
<1>9. CASE Boot \/ WaitUntilIdle \/ UNCHANGED vars
  BY <1>1, <1>9 DEF Boot, WaitUntilIdle, vars, queueVars, execVars
<1> QED BY <1>2, <1>3, <1>4, <1>5, <1>6, <1>7, <1>8, <1>9 DEF Next, Crash, CrashAfterStalling

\* While nothing takes rows out of batches that may still be paid, the rows of a live
\* transaction stay in its batch, unstalled, and start() finds nothing on the way.
THEOREM OnceInvariant ==
    ASSUME Undisturbed
    PROVE  Spec => []OnceInv
<1>1. Uncapped
  BY DEF Undisturbed
<1>2. Init => OnceInv
  BY DEF Init, QueueInit, EmptyFunction, OnceInv, PaidRowsPinned, BatchedUnstalled,
         NothingSentBeforeLoop, OnTheWay
<1>3. Base /\ LaneInv /\ FailingIndex /\ SigningUnstalled /\ OnceInv /\ [Next]_vars
        => OnceInv'
  BY OnceStep
<1>4. Spec => []SigningUnstalled
  BY <1>1, SigningInvariant
<1> QED BY <1>2, <1>3, <1>4, FailingIndexInvariant, LaneInvariant, PTL DEF Spec

\* No request is ever in two executed transactions, for every number of requests,
\* keys and retries, any batch size and action limit, with merging or without: every
\* failure and refusal that the executor retries, and every row that an operator
\* unstalls, is of a transaction the chain did not execute.
THEOREM PaidAtMostOnce ==
    ASSUME Undisturbed
    PROVE  Spec => []AtMostOnce
<1>1. OnceInv => AtMostOnce
  BY DEF OnceInv, PaidRowsPinned, AtMostOnce, Payments, Executed, OnTheWay
<1> QED BY <1>1, OnceInvariant, PTL

=============================================================================
