---------------------- MODULE ExecutorLifecycleProofs ----------------------
(***************************************************************************)
(* Which item a failing action stalls, and that the executor implements    *)
(* the life cycle of TransferLifecycle, where items and actions are        *)
(* numbered alike: every push says that the receiver has a deposit.        *)
(***************************************************************************)
EXTENDS ExecutorPaymentProofs

-----------------------------------------------------------------------------
(* The arithmetic of a batch in which each item takes one action *)

\* A batch of items that take one action each.
OneActionEach(items) == \A i \in DOMAIN items : items[i].has_storage_deposit

\* The actions up to an item are the items before it, and its own.
LEMMA ActionsCount ==
    ASSUME NEW n \in Nat, NEW items, DOMAIN items \subseteq 1..n, OneActionEach(items),
           NEW i \in DOMAIN items
    PROVE  /\ ActionsThrough(items, i) = Rank(DOMAIN items, i) + 1
           /\ Rank(DOMAIN items, i) \in Nat
<1> DEFINE before == {j \in DOMAIN items : j < i}
           upTo == {j \in DOMAIN items : j <= i}
           new == {j \in upTo : ~ items[j].has_storage_deposit}
<1>1. before \subseteq 1..n /\ upTo = before \cup {i} /\ i \notin before
  OBVIOUS
<1>2. new = {}
  BY DEF OneActionEach
<1>3. Rank(DOMAIN items, i) = Cardinality(before)
  BY DEF Rank
<1>4. ActionsThrough(items, i) = Cardinality(upTo) + Cardinality(new)
  BY DEF ActionsThrough, ActionsOf
<1> HIDE DEF before, upTo, new
<1>5. IsFiniteSet(before) /\ Cardinality(before) \in Nat
  BY <1>1, ItemsFinite
<1>6. Cardinality(upTo) = Cardinality(before) + 1
  BY <1>1, <1>5, FS_AddElement
<1>7. Cardinality(new) = 0
  BY <1>2, FS_EmptySet
<1> QED BY <1>3, <1>4, <1>5, <1>6, <1>7

\* The transaction has one action for each item that fits.
LEMMA ActionsAreItems ==
    ASSUME NEW n \in Nat, NEW items, DOMAIN items \subseteq 1..n, OneActionEach(items)
    PROVE  /\ NumActions(items) = Cardinality(ItemsToProcess(items))
           /\ NumActions(items) \in Nat
<1> DEFINE ids == ItemsToProcess(items)
           new == {j \in ids : ~ items[j].has_storage_deposit}
<1>1. ids \subseteq 1..n /\ new = {}
  BY DEF OneActionEach, ItemsToProcess
<1>2. NumActions(items) = Cardinality(ids) + Cardinality(new)
  BY DEF NumActions, ActionsOf
<1> HIDE DEF ids, new
<1>3. Cardinality(ids) \in Nat /\ Cardinality(new) = 0
  BY <1>1, ItemsFinite, FS_EmptySet
<1> QED BY <1>2, <1>3 DEF ids

\* The items that fit come first, so they have the same numbers among themselves.
LEMMA RankInPrefix ==
    ASSUME NEW n \in Nat, NEW items, DOMAIN items \subseteq 1..n, OneActionEach(items),
           NEW i \in ItemsToProcess(items), MaxActions \in Nat
    PROVE  Rank(ItemsToProcess(items), i) = Rank(DOMAIN items, i)
<1> DEFINE ids == ItemsToProcess(items)
<1>1. ids \subseteq DOMAIN items /\ \A j \in DOMAIN items : j \in ids <=> ActionsThrough(items, j) <= MaxActions
  BY DEF ItemsToProcess
<1>2. ASSUME NEW j \in DOMAIN items, j < i
      PROVE  j \in ids
  <2>1. Rank(DOMAIN items, j) < Rank(DOMAIN items, i)
    BY <1>1, <1>2, RankGrows
  <2>2. /\ ActionsThrough(items, i) = Rank(DOMAIN items, i) + 1
        /\ ActionsThrough(items, j) = Rank(DOMAIN items, j) + 1
        /\ Rank(DOMAIN items, i) \in Nat /\ Rank(DOMAIN items, j) \in Nat
    BY <1>1, ActionsCount
  <2>3. ActionsThrough(items, i) <= MaxActions
    BY <1>1
  <2> QED BY <1>1, <2>1, <2>2, <2>3
<1> HIDE DEF ids
<1>3. {j \in ids : j < i} = {j \in DOMAIN items : j < i}
  BY <1>1, <1>2
<1>4. Rank(ids, i) = Rank(DOMAIN items, i)
  BY <1>3 DEF Rank
<1> QED BY <1>4 DEF ids

\* Action k is the action of item k, which is in the batch.
LEMMA OwnerIsItemAt ==
    ASSUME NEW n \in Nat, NEW items, DOMAIN items \subseteq 1..n, OneActionEach(items),
           MaxActions \in Nat, NEW k \in 0..(NumActions(items) - 1)
    PROVE  /\ ItemAt(items, k) \in ItemsToProcess(items)
           /\ Owner(items, k) = ItemAt(items, k)
<1> DEFINE ids == ItemsToProcess(items)
<1>1. ids \subseteq DOMAIN items /\ ids \subseteq 1..n
  BY DEF ItemsToProcess
<1>2. k \in 0..(Cardinality(ids) - 1) /\ k \in Nat
  BY ActionsAreItems
<1>3. \A i \in ids : Rank(ids, i) = Rank(DOMAIN items, i)
  BY ExecutorAssumption, RankInPrefix
<1>4. \A i \in ids :
          /\ ActionsThrough(items, i) = Rank(DOMAIN items, i) + 1
          /\ Rank(DOMAIN items, i) \in Nat
          /\ ActionsNeeded(items[i]) = 1
  BY <1>1, ActionsCount DEF OneActionEach, ActionsNeeded
<1>5. Owner(items, k) = CHOOSE i \in ids : /\ ActionsThrough(items, i) - ActionsNeeded(items[i]) <= k
                                           /\ k < ActionsThrough(items, i)
  BY DEF Owner
<1> HIDE DEF ids
<1>6. PICK item \in ids : Rank(ids, item) = k
  BY <1>1, <1>2, RankReached
<1>7. \A i \in DOMAIN items : Rank(DOMAIN items, i) = k <=> i = item
  BY <1>1, <1>3, <1>6, RankApart
<1>8. ItemAt(items, k) = item
  BY <1>1, <1>7 DEF ItemAt
<1>9. \A i \in ids : /\ ActionsThrough(items, i) - ActionsNeeded(items[i]) <= k
                     /\ k < ActionsThrough(items, i)
                     <=> i = item
  BY <1>1, <1>2, <1>4, <1>7
<1>10. Owner(items, k) = item
  BY <1>5, <1>9
<1> QED BY <1>8, <1>10 DEF ids

-----------------------------------------------------------------------------
(* What a lane has sent *)

\* Whatever lanes hold a batch held it already; their batches stay processing, and
\* the chain keeps what the transactions pay.
LEMMA HeldKept ==
    ASSUME SentAsHeld,
           \A m \in Lanes : lane'[m].batch # Null =>
               /\ lane'[m].batch = lane[m].batch /\ lane'[m].items = lane[m].items
               /\ lane[m].batch \in PendingBatchTransactions',
           \A m \in Lanes : lane[m].batch # Null =>
               /\ chain'[lane[m].batch].pays = chain[lane[m].batch].pays
               /\ chain'[lane[m].batch].actions = chain[lane[m].batch].actions
    PROVE  SentAsHeld'
  BY DEF SentAsHeld

\* One lane returns, or backs off; the batches of the others are not touched.
LEMMA HeldLaneStep ==
    ASSUME Base, LaneInv, SentAsHeld, NEW l \in Lanes, LaneStep(l)
    PROVE  SentAsHeld'
<1> USE Tables
<1>1. lane[l].batch # Null /\ UNCHANGED chain
  <2>1. lane[l].batch # Null
    <3>1. lane[l].pc \in {"sending", "backoff"}
      BY LaneStepCases
    <3> QED BY <3>1 DEF Base, TypeOK, LaneTypeOK, ChainTypeOK, Null
  <2> QED BY <2>1, LaneStepCases DEF GivesUp, Leaves, Return, Backoff
<1>2. \A m \in Lanes : m # l /\ lane[m].batch # Null =>
          /\ lane[m].batch \in PendingBatchTransactions
          /\ lane[m].batch # lane[l].batch
  BY <1>1 DEF SentAsHeld, LaneInv, LanesApart
<1>3. CASE Backoff(l) /\ UNCHANGED queueVars
  <2>1. \A m \in Lanes : lane'[m].batch = lane[m].batch /\ lane'[m].items = lane[m].items
    BY <1>3 DEF Backoff, LaneAt
  <2> QED BY <1>1, <1>3, <2>1, HeldKept DEF SentAsHeld, queueVars, PendingBatchTransactions
<1>4. ASSUME Return(l), \A c \in PendingBatchTransactions :
                            c # lane[l].batch => c \in PendingBatchTransactions'
      PROVE  SentAsHeld'
  <2>1. \A m \in Lanes : lane'[m] = IF m = l THEN IdleLane ELSE lane[m]
    BY <1>4 DEF Return
  <2> QED BY <1>1, <1>2, <1>4, <2>1, IdleFields, HeldKept
<1>5. ASSUME batchTx' = Without(batchTx, lane[l].batch)
      PROVE  \A c \in PendingBatchTransactions :
                 c # lane[l].batch => c \in PendingBatchTransactions'
  BY <1>5 DEF Without, PendingBatchTransactions
<1>6. ASSUME UNCHANGED queueVars \/ RespondSuccess(l)
      PROVE  \A c \in PendingBatchTransactions :
                 c # lane[l].batch => c \in PendingBatchTransactions'
  BY <1>6 DEF RespondSuccess, MarkBatchSuccess, PendingBatchTransactions, queueVars
<1> QED BY <1>3, <1>4, <1>5, <1>6, LaneStepCases DEF GivesUp, Leaves

LEMMA HeldSignOk ==
    ASSUME Base, LaneInv, SentAsHeld, NEW l \in Lanes, SignOk(l)
    PROVE  SentAsHeld'
<1> DEFINE b == lastBatchId + 1
           items == lane[l].items
           new == LaneAt("sending", items, b)
<1>1. /\ lane' = [lane EXCEPT ![l] = new]
      /\ batchTx' = [c \in DOMAIN batchTx \cup {b} |->
                        IF c = b THEN "processing" ELSE batchTx[c]]
      /\ \A c \in DOMAIN chain \cup {b} :
            chain'[c] = IF c = b THEN [pays |-> Paid(items), actions |-> NumActions(items),
                                       state |-> "sent", at |-> NoIndex]
                        ELSE chain[c]
  BY DEF SignOk, CreateSignedTransaction
<1>2. \A m \in Lanes : lane[m].batch # Null => lane[m].batch \in DOMAIN chain /\ lane[m].batch # b
  BY DEF Base, TypeOK, LaneTypeOK, ChainTypeOK, QueueTypeOK
<1>3. new.items = items /\ new.batch = b
  BY DEF LaneAt
<1>4. PendingBatchTransactions' = PendingBatchTransactions \cup {b}
  BY <1>1 DEF PendingBatchTransactions
<1> SUFFICES ASSUME NEW m \in Lanes, lane'[m].batch # Null
             PROVE  /\ lane'[m].batch \in PendingBatchTransactions'
                    /\ chain'[lane'[m].batch].pays = Paid(lane'[m].items)
                    /\ chain'[lane'[m].batch].actions = NumActions(lane'[m].items)
  BY DEF SentAsHeld
<1> HIDE DEF new, items, b
<1>5. lane'[m] = IF m = l THEN new ELSE lane[m]
  BY <1>1, Tables
<1>6. CASE m = l
  BY <1>1, <1>3, <1>4, <1>5, <1>6
<1>7. CASE m # l
  BY <1>1, <1>2, <1>4, <1>5, <1>7 DEF SentAsHeld
<1> QED BY <1>6, <1>7

LEMMA HeldByNone ==
    ASSUME \A l \in Lanes : lane'[l].batch = Null
    PROVE  SentAsHeld' /\ SentStayBatched'
  BY DEF SentAsHeld, SentStayBatched

\* start() and a crash leave no lane with a batch.
LEMMA HeldByNoneInLoop ==
    ASSUME Base, LaneInv, LoopStep \/ LoseMemory
    PROVE  \A l \in Lanes : lane'[l].batch = Null
<1>1. IdleLane.batch = Null
  BY IdleFields
<1>2. ASSUME NEW q, Poll(q)
      PROVE  \A l \in Lanes : lane'[l].batch = Null
  BY <1>2 DEF Poll, IdleLane, LaneAt
<1>3. CASE LoseMemory
  BY <1>1, <1>3 DEF LoseMemory
<1>4. CASE StartRecovery \/ RecoverNext
  <2>1. \A l \in Lanes : lane[l] = IdleLane
    BY <1>4 DEF StartRecovery, RecoverNext, LaneInv, OneIteration
  <2>2. UNCHANGED lane \/ Poll(ResetRows(queue, batchTx))
    BY <1>4 DEF StartRecovery, RecoverNext, RecoverStep
  <2> QED BY <1>1, <1>2, <2>1, <2>2
<1>5. CASE LoopCompleted
  BY <1>1, <1>5 DEF LoopCompleted, LaneInv, OneIteration
<1> QED BY <1>2, <1>3, <1>4, <1>5 DEF LoopStep, Wake

LEMMA SentAsHeldStep ==
    ASSUME Base, LaneInv, SentAsHeld, [Next]_vars
    PROVE  SentAsHeld'
<1>1. CASE UNCHANGED <<lane, chain, batchTx>>
  BY <1>1 DEF SentAsHeld, PendingBatchTransactions
<1>2. ASSUME NEW l \in Lanes, SignOk(l) \/ LaneStep(l)
      PROVE  SentAsHeld'
  BY <1>2, HeldSignOk, HeldLaneStep
<1>3. ASSUME NEW l \in Lanes, SignFail(l)
      PROVE  SentAsHeld'
  <2>1. \A m \in Lanes : lane'[m] = lane[m] \/ lane'[m].batch = Null
    BY <1>3, IdleFields, Tables DEF SignFail, Return
  <2>2. UNCHANGED <<chain, batchTx>>
    BY <1>3 DEF SignFail, Return, queueVars
  <2> QED BY <2>1, <2>2, HeldKept DEF SentAsHeld, PendingBatchTransactions
<1>4. CASE ChainStep
  <2>1. PICK b, outcome, index : Settle(b, outcome, index)
    BY <1>4 DEF ChainStep, ChainExecute, ChainActionError, ChainRefuse
  <2>2. \A c \in DOMAIN chain : /\ chain'[c].pays = chain[c].pays
                                /\ chain'[c].actions = chain[c].actions
    BY <2>1 DEF Settle
  <2>3. UNCHANGED <<lane, batchTx>>
    BY <2>1 DEF Settle, queueVars
  <2>4. \A m \in Lanes : lane[m].batch # Null => lane[m].batch \in DOMAIN chain
    BY DEF Base, TypeOK, LaneTypeOK
  <2> QED BY <2>2, <2>3, <2>4, HeldKept DEF SentAsHeld, PendingBatchTransactions
<1>5. CASE LoopStep \/ LoseMemory
  BY <1>5, HeldByNoneInLoop, HeldByNone
<1>6. ASSUME NEW r \in Requests, NEW d \in DepositFlags, Post(r, d)
      PROVE  SentAsHeld'
  BY <1>1, <1>6 DEF Post, Push, Merge, Insert, execVars
<1>7. CASE Unstall
  BY <1>1, <1>7 DEF Unstall, UnstallItem, UnstallItems, UnstallAll
<1>8. CASE Boot \/ WaitUntilIdle \/ UNCHANGED vars
  BY <1>1, <1>8 DEF Boot, WaitUntilIdle, vars, queueVars, execVars
<1> QED BY <1>2, <1>3, <1>4, <1>5, <1>6, <1>7, <1>8 DEF Next, Crash, CrashAfterStalling

\* The transaction of a lane is the one of the items it holds, and its batch is
\* processing until the lane returns: no other lane, restart or operator settles it.
THEOREM HeldInvariant == Spec => []SentAsHeld
<1>1. Init => SentAsHeld
  BY IdleFields DEF Init, SentAsHeld
<1>2. Base /\ LaneInv /\ SentAsHeld /\ [Next]_vars => SentAsHeld'
  BY SentAsHeldStep
<1> QED BY <1>1, <1>2, LaneInvariant, PTL DEF Spec

\* Lanes that hold a batch held it already, and no row has left the batch.
LEMMA BatchedKept ==
    ASSUME Base, SentStayBatched,
           \A m \in Lanes : lane'[m].batch # Null =>
               /\ lane'[m].batch = lane[m].batch /\ lane'[m].items = lane[m].items
               /\ \A i \in DOMAIN queue : queue[i].batch_id = lane[m].batch
                                              => queue'[i].batch_id = lane[m].batch
    PROVE  SentStayBatched'
<1> SUFFICES ASSUME NEW m \in Lanes, lane'[m].batch # Null,
                    NEW i \in ItemsToProcess(lane'[m].items)
             PROVE  queue'[i].batch_id = lane'[m].batch
  BY DEF SentStayBatched
<1>1. lane'[m].batch = lane[m].batch /\ lane'[m].items = lane[m].items
  OBVIOUS
<1>2. i \in DOMAIN queue
  BY <1>1, Tables DEF ItemsToProcess, Base, TypeOK, LaneTypeOK
<1> QED BY <1>1, <1>2 DEF SentStayBatched

\* The rows that go back are of the batch of the lane that returns.
LEMMA BatchedLaneStep ==
    ASSUME Base, LaneInv, SentStayBatched, NEW l \in Lanes, LaneStep(l)
    PROVE  SentStayBatched'
<1> USE Tables
<1>1. lane[l].batch # Null
  <2>1. lane[l].pc \in {"sending", "backoff"}
    BY LaneStepCases
  <2> QED BY <2>1 DEF Base, TypeOK, LaneTypeOK, ChainTypeOK, Null
<1>2. CASE Backoff(l) /\ UNCHANGED queueVars
  <2>1. \A m \in Lanes : lane'[m].batch = lane[m].batch /\ lane'[m].items = lane[m].items
    BY <1>2 DEF Backoff, LaneAt
  <2> QED BY <1>2, <2>1, BatchedKept DEF queueVars
<1>3. ASSUME Return(l), \A i \in DOMAIN queue : queue[i].batch_id # lane[l].batch
                                                   => queue'[i].batch_id = queue[i].batch_id
      PROVE  SentStayBatched'
  <2>1. \A m \in Lanes : lane'[m] = IF m = l THEN IdleLane ELSE lane[m]
    BY <1>3 DEF Return
  <2>2. \A m \in Lanes : m # l => lane[m].batch # lane[l].batch
    BY <1>1 DEF LaneInv, LanesApart
  <2> QED BY <1>3, <2>1, <2>2, IdleFields, BatchedKept
<1>4. ASSUME NEW S, GivesUp(l, S)
      PROVE  SentStayBatched'
  BY <1>3, <1>4 DEF GivesUp, GivenBack
<1>5. CASE Leaves(l)
  BY <1>3, <1>5 DEF Leaves, SameBatches
<1> QED BY <1>2, <1>4, <1>5, LaneStepCases

\* The rows of a new batch are of no other lane.
LEMMA BatchedSignOk ==
    ASSUME Base, LaneInv, SentStayBatched, NEW l \in Lanes, SignOk(l)
    PROVE  SentStayBatched'
<1> DEFINE b == lastBatchId + 1
           ids == ItemsToProcess(lane[l].items)
           new == LaneAt("sending", lane[l].items, b)
<1>1. lane' = [lane EXCEPT ![l] = new] /\ queue' = AssignedRows(queue, b, ids)
  BY DEF SignOk, CreateSignedTransaction
<1>2. new.items = lane[l].items /\ new.batch = b
  BY DEF LaneAt
<1>3. /\ ItemsToProcess(new.items) = ids
      /\ \A m \in Lanes : ItemsToProcess(lane[m].items) \subseteq DOMAIN lane[m].items
  BY <1>2 DEF ItemsToProcess
<1>4. \A m \in Lanes : DOMAIN lane[m].items \subseteq 1..lastItemId
  BY DEF Base, TypeOK, LaneTypeOK
<1>5. \A i \in 1..lastItemId :
          queue'[i].batch_id = IF i \in ids THEN b ELSE queue[i].batch_id
  BY <1>1, Tables, AssignedIds
<1> HIDE DEF new, ids, b
<1> SUFFICES ASSUME NEW m \in Lanes, lane'[m].batch # Null,
                    NEW i \in ItemsToProcess(lane'[m].items)
             PROVE  queue'[i].batch_id = lane'[m].batch
  BY DEF SentStayBatched
<1>6. lane'[m] = IF m = l THEN new ELSE lane[m]
  BY <1>1, Tables
<1>7. i \in 1..lastItemId
  BY <1>2, <1>3, <1>4, <1>6 DEF ids
<1>8. queue'[i].batch_id = IF i \in ids THEN b ELSE queue[i].batch_id
  BY <1>5, <1>7
<1>9. CASE m = l
  BY <1>2, <1>3, <1>6, <1>8, <1>9
<1>10. CASE m # l
  <2>1. i \notin ids
    BY <1>3, <1>6, <1>10 DEF ids, LaneInv, LanesApart
  <2> QED BY <1>6, <1>8, <1>10, <2>1 DEF SentStayBatched
<1> QED BY <1>9, <1>10

LEMMA SentStayBatchedStep ==
    ASSUME Base, LaneInv, SentAsHeld, StalledNotInFlight, SentStayBatched, [Next]_vars
    PROVE  SentStayBatched'
<1> USE Tables
<1>1. CASE UNCHANGED <<lane, queue>>
  BY <1>1 DEF SentStayBatched
<1>2. ASSUME NEW l \in Lanes, SignOk(l) \/ LaneStep(l)
      PROVE  SentStayBatched'
  BY <1>2, BatchedSignOk, BatchedLaneStep
<1>3. ASSUME NEW l \in Lanes, SignFail(l)
      PROVE  SentStayBatched'
  <2>1. \A m \in Lanes : lane'[m] = lane[m] \/ lane'[m].batch = Null
    BY <1>3, IdleFields DEF SignFail, Return
  <2>2. UNCHANGED queue
    BY <1>3 DEF SignFail, queueVars
  <2> QED BY <2>1, <2>2, BatchedKept
<1>4. CASE LoopStep \/ LoseMemory
  BY <1>4, HeldByNoneInLoop, HeldByNone
<1>5. ASSUME NEW r \in Requests, NEW d \in DepositFlags, Post(r, d)
      PROVE  SentStayBatched'
  <2>1. ASSUME NEW j \in Mergeable(Receiver[r]), Merge(r, j, d)
        PROVE  \A i \in DOMAIN queue : queue'[i].batch_id = queue[i].batch_id
    BY <2>1 DEF Merge, MergedRows, Update, Rows, Row
  <2>2. ASSUME Insert(r, d)
        PROVE  \A i \in DOMAIN queue : queue'[i].batch_id = queue[i].batch_id
    BY <2>2 DEF Insert
  <2>3. \A i \in DOMAIN queue : queue'[i].batch_id = queue[i].batch_id
    BY <1>5, <2>1, <2>2 DEF Post, Push
  <2>4. UNCHANGED lane
    BY <1>5 DEF Post, execVars
  <2> QED BY <2>3, <2>4, BatchedKept
<1>6. CASE Unstall
  <2> SUFFICES ASSUME NEW m \in Lanes, lane[m].batch # Null,
                      NEW i \in ItemsToProcess(lane[m].items)
               PROVE  queue'[i].batch_id = lane[m].batch
    BY <1>6 DEF Unstall, SentStayBatched
  <2>1. i \in DOMAIN queue /\ queue[i].batch_id = lane[m].batch
    BY DEF SentStayBatched, ItemsToProcess, Base, TypeOK, LaneTypeOK
  <2>2. lane[m].batch \in PendingBatchTransactions
    BY DEF SentAsHeld
  <2>3. ~ RecoveryAhead
    BY IdleFields DEF RecoveryAhead, LaneInv, OneIteration
  <2>4. i \notin Stalled(queue)
    BY <2>1, <2>2, <2>3 DEF StalledNotInFlight
  <2>5. PICK ids : queue' = UnstalledRows(queue, ids)
    BY <1>6 DEF Unstall, UnstallItem, UnstallItems, UnstallAll
  <2> QED BY <2>1, <2>4, <2>5 DEF UnstalledRows, Update
<1>7. CASE Boot \/ WaitUntilIdle \/ ChainStep \/ UNCHANGED vars
  BY <1>1, <1>7 DEF Boot, WaitUntilIdle, ChainStep, ChainExecute, ChainActionError, ChainRefuse,
                    Settle, vars, queueVars, execVars
<1> QED BY <1>2, <1>3, <1>4, <1>5, <1>6, <1>7 DEF Next, Crash, CrashAfterStalling

\* With one key, or without unstalls, what a lane has sent stays in its batch until the
\* lane returns: the failure of another batch takes out rows of that batch only, and an
\* unstall call finds none of them stalled.
THEOREM BatchedInvariant ==
    ASSUME Uncapped
    PROVE  Spec => []SentStayBatched
<1>1. Init => SentStayBatched
  BY IdleFields DEF Init, SentStayBatched
<1>2. Base /\ LaneInv /\ SentAsHeld /\ StalledNotInFlight /\ SentStayBatched /\ [Next]_vars
        => SentStayBatched'
  BY SentStayBatchedStep
<1> QED BY <1>1, <1>2, LaneInvariant, HeldInvariant, StalledRestsOutside, PTL DEF Spec

-----------------------------------------------------------------------------
(* Every receiver has a deposit *)

\* No row and no copy asks for the action that pays the deposit.
Deposited(q) == \A i \in DOMAIN q : q[i].has_storage_deposit

AllDeposited == Deposited(queue) /\ \A l \in Lanes : OneActionEach(lane[l].items)

\* No update of the rows forgets a deposit.
LEMMA UpdatesKeepDeposit ==
    ASSUME NEW n \in Nat, NEW m \in Nat, NEW q \in Rows(n, m), Deposited(q), NEW b, NEW ids
    PROVE  /\ Deposited(AssignedRows(q, b, ids))
           /\ Deposited(DepositedRows(q, b))
           /\ Deposited(StalledRows(q, b))
           /\ Deposited(UnstalledRows(q, ids))
           /\ Deposited(ToldRows(q, b))
           /\ Deposited(RetriedRows(q, b))
           /\ Deposited(CappedRows(q))
           /\ Deposited(ResetRows(q, ids))
<1> USE DEF Deposited, Update, Rows, Row
<1>1. Deposited(AssignedRows(q, b, ids))
  BY DEF AssignedRows
<1>2. Deposited(DepositedRows(q, b))
  BY DEF DepositedRows
<1>3. Deposited(StalledRows(q, b))
  BY DEF StalledRows
<1>4. Deposited(UnstalledRows(q, ids))
  BY DEF UnstalledRows
<1>5. Deposited(ToldRows(q, b))
  BY DEF ToldRows
<1>6. Deposited(RetriedRows(q, b))
  BY DEF RetriedRows
<1>7. Deposited(CappedRows(q))
  BY DEF CappedRows
<1>8. Deposited(ResetRows(q, ids))
  BY DEF ResetRows
<1> QED BY <1>1, <1>2, <1>3, <1>4, <1>5, <1>6, <1>7, <1>8

LEMMA RecoverKeepsDeposit ==
    ASSUME NEW n \in Nat, NEW m \in Nat, NEW q \in Rows(n, m), Deposited(q), NEW b,
           NEW message \in BOOLEAN, NEW without \in BOOLEAN
    PROVE  Deposited(RecoveredRows(q, b, message, without))
<1> DEFINE told == IF message THEN ToldRows(q, b) ELSE q
<1>1. told \in Rows(n, m) /\ Deposited(told)
  BY ToldLemma, UpdatesKeepDeposit
<1> HIDE DEF told
<1>2. RetriedRows(told, b) \in Rows(n, m) /\ Deposited(RetriedRows(told, b))
  BY <1>1, RetriedLemma, UpdatesKeepDeposit
<1>3. Deposited(CappedRows(RetriedRows(told, b)))
  BY <1>2, UpdatesKeepDeposit
<1> QED BY <1>1, <1>3 DEF RecoveredRows, told

\* The rows keep their deposits, and a lane holds what it held, or nothing, or
\* copies of the rows.
LEMMA DepositKept ==
    ASSUME AllDeposited, Deposited(queue'),
           \A l \in Lanes : \/ lane'[l].items = lane[l].items
                            \/ \A i \in DOMAIN lane'[l].items :
                                  i \in DOMAIN queue' /\ lane'[l].items[i] = queue'[i]
    PROVE  AllDeposited'
<1>1. \A l \in Lanes : OneActionEach(lane'[l].items)
  BY DEF AllDeposited, OneActionEach, Deposited
<1> QED BY <1>1 DEF AllDeposited, OneActionEach, Deposited

LEMMA DepositLaneStep ==
    ASSUME Base, AllDeposited, NEW l \in Lanes, LaneStep(l)
    PROVE  Deposited(queue')
<1> USE Tables
<1>1. Deposited(queue)
  BY DEF AllDeposited
<1>2. ASSUME NEW b, NEW without \in BOOLEAN, RecoverFailedBatch(b, TRUE, without)
      PROVE  Deposited(queue')
  BY <1>1, <1>2, RecoverKeepsDeposit DEF RecoverFailedBatch
<1>3. CASE RespondSuccess(l)
  BY <1>1, <1>3, UpdatesKeepDeposit DEF RespondSuccess, MarkBatchSuccess
<1>4. CASE RespondActionError(l)
  <2> DEFINE item == ItemAt(lane[l].items, chain[lane[l].batch].at)
             q == StalledRows(queue, item)
  <2>1. q \in Rows(lastItemId, lastBatchId) /\ Deposited(q)
    BY <1>1, StalledLemma, UpdatesKeepDeposit
  <2>2. queue' = RecoveredRows(q, lane[l].batch, FALSE, FALSE)
    BY <1>4 DEF RespondActionError
  <2> HIDE DEF q, item
  <2> QED BY <2>1, <2>2, RecoverKeepsDeposit
<1>5. CASE RespondIndexOutOfRange(l) \/ RespondInvalidTx(l) \/ NetworkError(l) \/ BackoffDone(l)
  BY <1>2, <1>5 DEF RespondIndexOutOfRange, RespondInvalidTx, NetworkError, BackoffDone
<1>6. CASE RespondUnknownFailure(l) \/ Backoff(l)
  BY <1>1, <1>6 DEF RespondUnknownFailure, Backoff, queueVars
<1> QED BY <1>3, <1>4, <1>5, <1>6 DEF LaneStep

LEMMA DepositLoopStep ==
    ASSUME Base, AllDeposited, LoopStep
    PROVE  AllDeposited'
<1> USE Tables
<1>1. Deposited(queue)
  BY DEF AllDeposited
<1>2. ASSUME NEW q \in Rows(lastItemId, lastBatchId), Deposited(q), queue' = q, Poll(q),
             UNCHANGED <<lastItemId, chain>>
      PROVE  AllDeposited'
  <2>1. \A l \in Lanes : \A i \in DOMAIN lane'[l].items :
            i \in DOMAIN queue' /\ lane'[l].items[i] = queue'[i]
    BY <1>2, PollType DEF Base, TypeOK
  <2> QED BY <1>2, <2>1, DepositKept
<1>3. ASSUME NEW pending, RecoverStep(pending), UNCHANGED chain
      PROVE  AllDeposited'
  <2>1. ASSUME NEW b, RecoverFailedBatch(b, TRUE, FALSE), UNCHANGED lane
        PROVE  AllDeposited'
    <3>1. Deposited(queue')
      BY <1>1, <2>1, RecoverKeepsDeposit DEF RecoverFailedBatch
    <3> QED BY <2>1, <3>1, DepositKept
  <2>2. ASSUME Recover, Poll(ResetRows(queue, batchTx))
        PROVE  AllDeposited'
    <3>1. /\ ResetRows(queue, batchTx) \in Rows(lastItemId, lastBatchId)
          /\ Deposited(ResetRows(queue, batchTx))
      BY <1>1, ResetLemma, UpdatesKeepDeposit
    <3> QED BY <1>2, <1>3, <2>2, <3>1 DEF Recover
  <2> QED BY <1>3, <2>1, <2>2 DEF RecoverStep
<1>4. CASE Wake
  BY <1>1, <1>2, <1>4 DEF Wake, queueVars
<1>5. CASE LoopCompleted
  BY <1>1, <1>5, DepositKept DEF LoopCompleted, queueVars
<1> QED BY <1>3, <1>4, <1>5 DEF LoopStep, StartRecovery, RecoverNext

LEMMA AllDepositedStep ==
    ASSUME DepositFlags \subseteq {TRUE}, Base, AllDeposited, [Next]_vars
    PROVE  AllDeposited'
<1> USE Tables
<1>1. Deposited(queue)
  BY DEF AllDeposited
<1>2. CASE UNCHANGED <<queue, lane>>
  BY <1>2 DEF AllDeposited
<1>3. ASSUME NEW l \in Lanes, SignOk(l)
      PROVE  AllDeposited'
  <2>1. Deposited(queue')
    BY <1>1, <1>3, UpdatesKeepDeposit DEF SignOk, CreateSignedTransaction
  <2>2. \A m \in Lanes : lane'[m].items = lane[m].items
    BY <1>3 DEF SignOk, LaneAt
  <2> QED BY <2>1, <2>2, DepositKept
<1>4. ASSUME NEW l \in Lanes, Deposited(queue'), Return(l) \/ Backoff(l)
      PROVE  AllDeposited'
  <2>1. \A m \in Lanes : lane'[m].items = lane[m].items \/ DOMAIN lane'[m].items = {}
    BY <1>4, IdleFields DEF Return, Backoff, LaneAt
  <2> QED BY <1>4, <2>1, DepositKept
<1>5. ASSUME NEW l \in Lanes, LaneStep(l) \/ SignFail(l)
      PROVE  AllDeposited'
  <2>1. Deposited(queue')
    BY <1>1, <1>5, DepositLaneStep DEF SignFail, queueVars
  <2>2. Return(l) \/ Backoff(l)
    BY <1>5, LaneStepCases DEF GivesUp, Leaves, SignFail
  <2> QED BY <1>4, <2>1, <2>2
<1>6. CASE LoopStep
  BY <1>6, DepositLoopStep
<1>7. ASSUME LoseMemory, Deposited(queue')
      PROVE  AllDeposited'
  BY <1>7, IdleFields, DepositKept DEF LoseMemory
<1>8. ASSUME NEW l \in Lanes, CrashAfterStalling(l)
      PROVE  AllDeposited'
  <2>1. PICK item : queue' = StalledRows(queue, item)
    BY <1>8, Zenon DEF CrashAfterStalling, MarkItemStalled
  <2> QED BY <1>1, <1>7, <1>8, <2>1, UpdatesKeepDeposit DEF CrashAfterStalling
<1>9. ASSUME NEW r \in Requests, NEW d \in DepositFlags, Post(r, d)
      PROVE  AllDeposited'
  <2>0. d = TRUE
    OBVIOUS
  <2>1. ASSUME NEW j \in Mergeable(Receiver[r]), Merge(r, j, d)
        PROVE  Deposited(queue')
    BY <1>1, <2>0, <2>1 DEF Merge, MergedRows, Update, Rows, Row, Deposited
  <2>2. ASSUME Insert(r, d)
        PROVE  Deposited(queue')
    BY <1>1, <2>0, <2>2 DEF Insert, NewRow, Deposited
  <2>3. Deposited(queue') /\ UNCHANGED lane
    BY <1>9, <2>1, <2>2 DEF Post, Push, execVars
  <2> QED BY <2>3, DepositKept
<1>10. CASE Unstall
  <2>1. PICK ids : queue' = UnstalledRows(queue, ids) /\ UNCHANGED lane
    BY <1>10 DEF Unstall, UnstallItem, UnstallItems, UnstallAll
  <2> QED BY <1>1, <2>1, UpdatesKeepDeposit, DepositKept
<1>11. CASE Boot \/ WaitUntilIdle \/ ChainStep \/ UNCHANGED vars
  BY <1>2, <1>11 DEF Boot, WaitUntilIdle, ChainStep, ChainExecute, ChainActionError,
                     ChainRefuse, Settle, vars, queueVars, execVars
<1>12. ASSUME Crash
       PROVE  AllDeposited'
  BY <1>1, <1>7, <1>12 DEF Crash, queueVars
<1> QED BY <1>3, <1>5, <1>6, <1>8, <1>9, <1>10, <1>11, <1>12 DEF Next

LEMMA DepositInvariant ==
    ASSUME DepositFlags \subseteq {TRUE}
    PROVE  Spec => []AllDeposited
<1>1. Init => AllDeposited
  BY IdleFields DEF Init, QueueInit, AllDeposited, Deposited, OneActionEach
<1>2. Base /\ AllDeposited /\ [Next]_vars => AllDeposited'
  BY AllDepositedStep
<1> QED BY <1>1, <1>2, LaneInvariant, PTL DEF Spec

-----------------------------------------------------------------------------
(* Who is stalled *)

\* The item that action k of the transaction belongs to: of the batch, and the one
\* that the executor takes.
LEMMA FailingOwner ==
    ASSUME Base, FailingIndex, SentAsHeld, AllDeposited, NEW l \in Lanes,
           Answered(l, "actionError")
    PROVE  LET items == lane[l].items
               k     == chain[lane[l].batch].at
           IN  ItemAt(items, k) \in ItemsToProcess(items) /\ Owner(items, k) = ItemAt(items, k)
<1>1. lane[l].batch # Null /\ lane[l].batch \in DOMAIN chain
  BY DEF Answered, Lane, Base, TypeOK, LaneTypeOK, ChainTypeOK, Null
<1>2. chain[lane[l].batch].at \in 0..(NumActions(lane[l].items) - 1)
  BY <1>1 DEF Answered, FailingIndex, SentAsHeld
<1>3. DOMAIN lane[l].items \subseteq 1..lastItemId /\ lastItemId \in Nat
  BY Tables DEF Base, TypeOK, LaneTypeOK
<1>4. OneActionEach(lane[l].items)
  BY DEF AllDeposited
<1>5. MaxActions \in Nat
  BY ExecutorAssumption
<1> QED BY <1>2, <1>3, <1>4, <1>5, OwnerIsItemAt

\* A row that a step stalls has an action of its own that failed, or used up its
\* retries with the batch that was just given up.
LEMMA StallStep ==
    ASSUME Base, LaneInv, FailingIndex, SentAsHeld, AllDeposited, [Next]_vars,
           NEW i \in DOMAIN queue, ~ queue[i].is_stalled, queue'[i].is_stalled
    PROVE  \/ \E l \in Lanes : /\ Answered(l, "actionError")
                               /\ i = Owner(lane[l].items, chain[lane[l].batch].at)
                               /\ i \in ItemsToProcess(lane[l].items)
           \/ /\ ~ (queue'[i].retry_count <= MaxRetries)
              /\ queue[i].batch_id # Null \/ queue'[i].retry_count = queue[i].retry_count
<1> USE Tables
<1>1. ASSUME NEW b, NEW S, b # Null, GivenBack(queue, queue', b, S), i \notin S
      PROVE  /\ ~ (queue'[i].retry_count <= MaxRetries)
             /\ queue[i].batch_id # Null \/ queue'[i].retry_count = queue[i].retry_count
  <2>1. queue[i].retry_count \in Nat /\ MaxRetries \in Nat
    BY QueueAssumption DEF Base, TypeOK, QueueTypeOK, Row
  <2>2. /\ queue'[i].retry_count > MaxRetries
        /\ queue'[i].retry_count = IF queue[i].batch_id = b THEN queue[i].retry_count + 1
                                   ELSE queue[i].retry_count
    BY <1>1, Zenon DEF GivenBack
  <2> QED BY <1>1, <2>1, <2>2
<1>2. ASSUME NEW l \in Lanes, Answered(l, "actionError"),
             i = ItemAt(lane[l].items, chain[lane[l].batch].at)
      PROVE  /\ i = Owner(lane[l].items, chain[lane[l].batch].at)
             /\ i \in ItemsToProcess(lane[l].items)
  BY <1>2, FailingOwner
<1>3. ASSUME NEW l \in Lanes, LaneStep(l)
      PROVE  \/ /\ Answered(l, "actionError")
                /\ i = ItemAt(lane[l].items, chain[lane[l].batch].at)
             \/ /\ ~ (queue'[i].retry_count <= MaxRetries)
                /\ queue[i].batch_id # Null \/ queue'[i].retry_count = queue[i].retry_count
  <2>1. lane[l].batch # Null
    <3>1. lane[l].pc \in {"sending", "backoff"}
      BY <1>3, LaneStepCases
    <3> QED BY <3>1 DEF Base, TypeOK, LaneTypeOK, ChainTypeOK, Null
  <2>2. ~ Leaves(l) /\ ~ UNCHANGED queueVars
    BY DEF Leaves, SameBatches, queueVars
  <2>3. CASE RespondActionError(l)
             /\ GivesUp(l, {ItemAt(lane[l].items, chain[lane[l].batch].at)})
    BY <1>1, <2>1, <2>3 DEF RespondActionError, GivesUp
  <2>4. CASE GivesUp(l, {})
    BY <1>1, <2>1, <2>4 DEF GivesUp
  <2> QED BY <1>3, <2>2, <2>3, <2>4, LaneStepCases
<1>4. ASSUME NEW l \in Lanes, CrashAfterStalling(l)
      PROVE  /\ Answered(l, "actionError")
             /\ i = ItemAt(lane[l].items, chain[lane[l].batch].at)
  <2> DEFINE item == ItemAt(lane[l].items, chain[lane[l].batch].at)
  <2>1. queue' = StalledRows(queue, item) /\ Answered(l, "actionError")
    BY <1>4 DEF CrashAfterStalling, MarkItemStalled
  <2> HIDE DEF item
  <2>2. i = item
    BY <2>1 DEF StalledRows, Update
  <2> QED BY <2>1, <2>2 DEF item
<1>5. ASSUME NEW pending, pending \subseteq DOMAIN batchTx, RecoverStep(pending)
      PROVE  /\ ~ (queue'[i].retry_count <= MaxRetries)
             /\ queue[i].batch_id # Null \/ queue'[i].retry_count = queue[i].retry_count
  <2>1. ASSUME NEW b \in pending, RecoverFailedBatch(b, TRUE, FALSE)
        PROVE  GivenBack(queue, queue', b, {}) /\ b # Null
    <3>1. GivenBack(queue, queue', b, {})
      BY <2>1, RecoveredGivesBack DEF RecoverFailedBatch
    <3>2. b # Null
      BY <1>5, <2>1 DEF Base, TypeOK, QueueTypeOK, Null
    <3> QED BY <3>1, <3>2
  <2>2. ~ Recover
    BY DEF Recover, ResetRows, Update, Rows, Row
  <2> QED BY <1>1, <1>5, <2>1, <2>2 DEF RecoverStep
<1>6. CASE LoopStep
  <2>1. ~ Wake /\ ~ LoopCompleted
    BY DEF Wake, LoopCompleted, queueVars
  <2>2. PICK pending : pending \subseteq DOMAIN batchTx /\ RecoverStep(pending)
    BY <1>6, <2>1 DEF LoopStep, StartRecovery, RecoverNext, PendingBatchTransactions,
                      LaneInv, RecoveryExact
  <2> QED BY <1>5, <2>2
<1>7. ~ \E l \in Lanes : SignOk(l) \/ SignFail(l)
  <2>1. ASSUME NEW b, NEW ids, queue' = AssignedRows(queue, b, ids)
        PROVE  FALSE
    BY <2>1 DEF AssignedRows, Update, Rows, Row
  <2> QED BY <2>1 DEF SignOk, SignFail, CreateSignedTransaction, queueVars
<1>8. ~ \E r \in Requests, d \in DepositFlags : Post(r, d)
  <2>1. ASSUME NEW r, NEW j, NEW d, Merge(r, j, d)
        PROVE  FALSE
    BY <2>1 DEF Merge, MergedRows, Update, Rows, Row
  <2>2. ASSUME NEW r, NEW d, Insert(r, d)
        PROVE  FALSE
    BY <2>2 DEF Insert
  <2> QED BY <2>1, <2>2 DEF Post, Push
<1>9. ~ Unstall
  BY DEF Unstall, UnstallItem, UnstallItems, UnstallAll, UnstalledRows, Update, Rows, Row
<1>10. ~ UNCHANGED queue
  OBVIOUS
<1> QED BY <1>2, <1>3, <1>4, <1>6, <1>7, <1>8, <1>9, <1>10
        DEF Next, Boot, Crash, WaitUntilIdle, ChainStep, ChainExecute, ChainActionError,
            ChainRefuse, Settle, vars, queueVars

\* Where items and actions are numbered alike, a transfer that still has retries is
\* stalled only when an action of its own failed, whatever else goes wrong: failures of
\* other batches, crashes between the stalling and the recovery, unstalls and merges.
THEOREM StallsTheFailedItem ==
    ASSUME DepositFlags \subseteq {TRUE}
    PROVE  Spec => OnlyTheFailedItemStalls
<1>1. ASSUME Base, LaneInv, FailingIndex, SentAsHeld, AllDeposited, [Next]_vars,
             NEW i \in DOMAIN queue, ~ queue[i].is_stalled, queue'[i].is_stalled,
             queue'[i].retry_count <= MaxRetries
      PROVE  \E l \in Lanes : /\ Answered(l, "actionError")
                              /\ i = Owner(lane[l].items, chain[lane[l].batch].at)
  BY <1>1, StallStep
<1>2. Base /\ LaneInv /\ FailingIndex /\ SentAsHeld /\ AllDeposited /\ [Next]_vars
        => [\A i \in DOMAIN queue :
               /\ ~ queue[i].is_stalled /\ queue'[i].is_stalled
               /\ queue'[i].retry_count <= MaxRetries
               => \E l \in Lanes : /\ Answered(l, "actionError")
                                  /\ i = Owner(lane[l].items, chain[lane[l].batch].at)]_vars
  BY <1>1
<1>3. Spec => []AllDeposited
  BY DepositInvariant
<1> QED BY <1>2, <1>3, HeldInvariant, FailingIndexInvariant, LaneInvariant, PTL
        DEF Spec, OnlyTheFailedItemStalls

\* With one key, or without unstalls, a transfer that waits for its turn with retries
\* left is never stalled: neither by the failing action of a batch it is not in, nor by
\* the cap on retries, which reaches only what used them up before it was unstalled.
THEOREM StallsWhatItSent ==
    ASSUME DepositFlags \subseteq {TRUE}, Uncapped
    PROVE  Spec => StallsOnlyFromBatch
<1>1. ASSUME Base, LaneInv, FailingIndex, SentAsHeld, AllDeposited, SentStayBatched,
             [Next]_vars, NEW i \in DOMAIN queue,
             queue[i].batch_id = Null, ~ queue[i].is_stalled, queue[i].retry_count <= MaxRetries
      PROVE  ~ queue'[i].is_stalled
  <2> SUFFICES ASSUME queue'[i].is_stalled
               PROVE  FALSE
    OBVIOUS
  <2>1. \A l \in Lanes : Answered(l, "actionError") => i \notin ItemsToProcess(lane[l].items)
    BY <1>1 DEF SentStayBatched, Answered, Lane, Base, TypeOK, LaneTypeOK, ChainTypeOK, Null
  <2> QED BY <1>1, <2>1, StallStep
<1>2. Base /\ LaneInv /\ FailingIndex /\ SentAsHeld /\ AllDeposited /\ SentStayBatched
        /\ [Next]_vars
        => [\A i \in DOMAIN queue :
               /\ queue[i].batch_id = Null /\ ~ queue[i].is_stalled
               /\ queue[i].retry_count <= MaxRetries
               => ~ queue'[i].is_stalled]_vars
  BY <1>1
<1>3. Spec => []AllDeposited /\ []SentStayBatched
  BY DepositInvariant, BatchedInvariant
<1> QED BY <1>2, <1>3, HeldInvariant, FailingIndexInvariant, LaneInvariant, PTL
        DEF Spec, StallsOnlyFromBatch

-----------------------------------------------------------------------------
(* The life cycle.  What a client sees is looked up in the tables. *)

Seen(q, bt, i) == IF q[i].is_stalled THEN "stalled"
                  ELSE IF q[i].batch_id = Null THEN "pending"
                  ELSE bt[q[i].batch_id]

\* No row names a batch that is gone.
LEMMA SeenStatus ==
    ASSUME NEW q, NEW bt, NEW i, q[i].is_stalled \in BOOLEAN, Null \notin DOMAIN bt,
           q[i].batch_id # Null => q[i].batch_id \in DOMAIN bt
    PROVE  StatusIn(q, bt, i) = Seen(q, bt, i)
  BY DEF StatusIn, Seen

ShownBy(q, bt, t) == [r \in Requests |-> IF t[r] = Null THEN "none" ELSE Seen(q, bt, t[r])]

LEMMA ShownIsSeen ==
    ASSUME Base, NeverOrphaned, Base', NeverOrphaned'
    PROVE  /\ ShownStatus = ShownBy(queue, batchTx, ticket)
           /\ ShownStatus' = ShownBy(queue', batchTx', ticket')
<1>1. \A r \in Requests : ticket[r] # Null => StatusOf(ticket[r]) = Seen(queue, batchTx, ticket[r])
  <2> SUFFICES ASSUME NEW r \in Requests, ticket[r] # Null
               PROVE  StatusOf(ticket[r]) = Seen(queue, batchTx, ticket[r])
    OBVIOUS
  <2>1. /\ ticket[r] \in 1..lastItemId /\ queue[ticket[r]].is_stalled \in BOOLEAN
        /\ Null \notin DOMAIN batchTx
    BY DEF Base, TypeOK, QueueTypeOK, Row, Null
  <2>2. queue[ticket[r]].batch_id # Null => queue[ticket[r]].batch_id \in DOMAIN batchTx
    BY <2>1, Tables DEF NeverOrphaned
  <2>3. StatusOf(ticket[r]) = StatusIn(queue, batchTx, ticket[r])
    BY DEF StatusOf, StatusIn
  <2> QED BY <2>1, <2>2, <2>3, SeenStatus
<1>2. \A r \in Requests : ticket'[r] # Null =>
          (StatusOf(ticket[r]))' = Seen(queue', batchTx', ticket'[r])
  <2> SUFFICES ASSUME NEW r \in Requests, ticket'[r] # Null
               PROVE  (StatusOf(ticket[r]))' = Seen(queue', batchTx', ticket'[r])
    OBVIOUS
  <2>1. /\ ticket'[r] \in 1..lastItemId' /\ queue'[ticket'[r]].is_stalled \in BOOLEAN
        /\ Null \notin DOMAIN batchTx' /\ DOMAIN queue' = 1..lastItemId'
    BY DEF Base, TypeOK, QueueTypeOK, Row, Null
  <2>2. queue'[ticket'[r]].batch_id # Null => queue'[ticket'[r]].batch_id \in DOMAIN batchTx'
    BY <2>1 DEF NeverOrphaned
  <2>3. (StatusOf(ticket[r]))' = StatusIn(queue', batchTx', ticket'[r])
    BY DEF StatusOf, StatusIn
  <2>4. StatusIn(queue', batchTx', ticket'[r]) = Seen(queue', batchTx', ticket'[r])
    <3>1. PICK q, bt, i : q = queue' /\ bt = batchTx' /\ i = ticket'[r]
      OBVIOUS
    <3>2. q[i].is_stalled \in BOOLEAN /\ Null \notin DOMAIN bt
      BY <2>1, <3>1
    <3>3. q[i].batch_id # Null => q[i].batch_id \in DOMAIN bt
      BY <2>2, <3>1
    <3>4. StatusIn(q, bt, i) = Seen(q, bt, i)
      BY <3>2, <3>3, SeenStatus
    <3> QED BY <3>1, <3>4
  <2> QED BY <2>3, <2>4
<1> QED BY <1>1, <1>2 DEF ShownStatus, ShownBy

\* What the promises of TransferLifecycle ask for.
Orderly ==
    /\ Undisturbed
    /\ NoRefusals
    /\ ~ MergeExistingAccounts
    /\ DepositFlags \subseteq {TRUE}
    /\ MaxUnstalls = 0

LifeInv == /\ Base /\ LaneInv /\ FailingIndex /\ SigningUnstalled
           /\ SentAsHeld /\ SentStayBatched /\ AllDeposited /\ RetriesLeft
           /\ PaidInv /\ OnceInv /\ NeverOrphaned /\ NoBackoff

LEMMA PaidUnchanged ==
    ASSUME Base, DOMAIN chain \subseteq DOMAIN chain',
           \A b \in DOMAIN chain' : b \in Executed' => b \in DOMAIN chain,
           \A b \in DOMAIN chain : /\ chain'[b].pays = chain[b].pays
                                   /\ chain'[b].state = "executed" <=> chain[b].state = "executed"
    PROVE  PaymentCounts' = PaymentCounts
<1>1. Executed' = Executed
  BY DEF Executed
<1>2. \A r \in Requests : Payments(r)' = Payments(r)
  BY <1>1 DEF Payments, Executed
<1> QED BY <1>2 DEF PaymentCounts

\* Nothing a client could see has changed.
LEMMA LifeStutter ==
    ASSUME UNCHANGED <<queue, batchTx, ticket, chain>>
    PROVE  UNCHANGED Lifecycle!vars
  BY DEF Lifecycle!vars, ShownStatus, StatusOf, PaymentCounts, Payments, Executed

\* The requests of a batch that is processing, and not paid by another transaction.
InBatch(b) == {r \in Requests : ticket[r] # Null /\ queue[ticket[r]].batch_id = b}

LEMMA InBatchShown ==
    ASSUME LifeInv, Base', NeverOrphaned', NEW b \in PendingBatchTransactions
    PROVE  InBatch(b) \subseteq Lifecycle!In("processing")
<1> SUFFICES ASSUME NEW r \in InBatch(b)
             PROVE  ShownStatus[r] = "processing"
  BY DEF Lifecycle!In, InBatch
<1>1. /\ r \in Requests /\ ticket[r] # Null /\ ticket[r] \in DOMAIN queue
      /\ queue[ticket[r]].batch_id = b /\ b # Null /\ batchTx[b] = "processing"
  BY Tables DEF InBatch, PendingBatchTransactions, LifeInv, Base, TypeOK, QueueTypeOK, Null
<1>2. ~ queue[ticket[r]].is_stalled
  BY <1>1 DEF LifeInv, OnceInv, BatchedUnstalled
<1>3. ShownStatus = ShownBy(queue, batchTx, ticket)
  BY ShownIsSeen DEF LifeInv
<1> QED BY <1>1, <1>2, <1>3 DEF ShownBy, Seen

\* A request that is paid is in the batch of the one transaction that paid it.
LEMMA PaidByItsBatch ==
    ASSUME LifeInv, NEW r \in Requests, NEW b \in Payments(r)
    PROVE  /\ ticket[r] # Null /\ queue[ticket[r]].batch_id = b
           /\ b \in DOMAIN chain /\ chain[b].state = "executed"
           /\ Payments(r) = {b}
<1>1. \A c \in Payments(r) : c \in OnTheWay(r) /\ c \in DOMAIN chain /\ chain[c].state = "executed"
  BY DEF Payments, Executed, OnTheWay
<1> QED BY <1>1 DEF LifeInv, OnceInv, PaidRowsPinned

\* The requests that no transaction, or exactly one, has paid.
LEMMA CountsShown ==
    ASSUME NEW r \in Requests
    PROVE  /\ Payments(r) = {} => r \in Lifecycle!PaidTimes(0)
           /\ \A b : Payments(r) = {b} => r \in Lifecycle!PaidTimes(1)
  BY FS_EmptySet, FS_Singleton DEF Lifecycle!PaidTimes, PaymentCounts

\* A push makes one row, which waits.
LEMMA LifePost ==
    ASSUME Orderly, LifeInv, Base', NeverOrphaned',
           NEW r \in Requests, NEW d \in DepositFlags, Post(r, d)
    PROVE  Lifecycle!Accept
<1>1. Insert(r, d) /\ ticket[r] = Null /\ UNCHANGED chain
  BY DEF Post, Push, Mergeable, Orderly, execVars
<1>2. /\ ShownStatus = ShownBy(queue, batchTx, ticket)
      /\ ShownStatus' = ShownBy(queue', batchTx', ticket')
  BY ShownIsSeen DEF LifeInv
<1>3. ShownStatus[r] = "none"
  BY <1>1, <1>2 DEF ShownBy
<1>4. PaymentCounts' = PaymentCounts
  BY <1>1 DEF PaymentCounts, Payments, Executed
<1>5. /\ lastItemId \in Nat /\ ticket \in [Requests -> 0..lastItemId]
      /\ DOMAIN queue = 1..lastItemId
  BY DEF LifeInv, Base, TypeOK, QueueTypeOK
<1>6. /\ queue' = [i \in 1..(lastItemId + 1) |-> IF i = lastItemId + 1 THEN NewRow(r, d)
                                                 ELSE queue[i]]
      /\ ticket' = [ticket EXCEPT ![r] = lastItemId + 1]
      /\ batchTx' = batchTx
  BY <1>1 DEF Insert
<1>7. \A s \in Requests : ShownStatus'[s] = IF s \in {r} THEN "pending" ELSE ShownStatus[s]
  <2> SUFFICES ASSUME NEW s \in Requests
               PROVE  ShownStatus'[s] = IF s = r THEN "pending" ELSE ShownStatus[s]
    OBVIOUS
  <2>1. CASE s = r
    <3>1. ticket'[s] = lastItemId + 1 /\ ticket'[s] # Null
      BY <1>5, <1>6, <2>1 DEF Null
    <3>2. queue'[lastItemId + 1] = NewRow(r, d)
      BY <1>5, <1>6
    <3>3. Seen(queue', batchTx', lastItemId + 1) = "pending"
      BY <3>2 DEF Seen, NewRow
    <3> QED BY <1>2, <2>1, <3>1, <3>3 DEF ShownBy
  <2>2. CASE s # r
    <3>1. ticket'[s] = ticket[s] /\ ticket[s] \in 0..lastItemId
      BY <1>5, <1>6, <2>2
    <3>2. ticket[s] # Null => queue'[ticket[s]] = queue[ticket[s]]
      BY <1>5, <1>6, <3>1 DEF Null
    <3> QED BY <1>2, <1>6, <2>2, <3>1, <3>2 DEF ShownBy, Seen
  <2> QED BY <2>1, <2>2
<1>8. ShownStatus' = [s \in Requests |-> IF s \in {r} THEN "pending" ELSE ShownStatus[s]]
  BY <1>2, <1>7 DEF ShownBy
<1> QED BY <1>3, <1>4, <1>8 DEF Lifecycle!Accept, Lifecycle!In, Lifecycle!Move

\* The rows of a new batch were waiting.
LEMMA LifeSignOk ==
    ASSUME LifeInv, Base', NeverOrphaned', NEW l \in Lanes, SignOk(l)
    PROVE  Lifecycle!Take
<1> DEFINE b == lastBatchId + 1
           ids == ItemsToProcess(lane[l].items)
           S == {r \in Requests : ticket[r] \in ids}
<1>1. /\ ShownStatus = ShownBy(queue, batchTx, ticket)
      /\ ShownStatus' = ShownBy(queue', batchTx', ticket')
  BY ShownIsSeen DEF LifeInv
<1>2. /\ lane[l].pc = "signing" /\ lane[l].batch = Null /\ ids \subseteq DOMAIN lane[l].items
      /\ DOMAIN lane[l].items \subseteq 1..lastItemId
  BY DEF SignOk, Lane, ItemsToProcess, LifeInv, Base, TypeOK, LaneTypeOK
<1>3. \A i \in ids : queue[i].batch_id = Null /\ ~ queue[i].is_stalled
  BY <1>2 DEF LifeInv, LaneInv, LanesOwnRows, SigningUnstalled
<1>4. /\ queue' = AssignedRows(queue, b, ids) /\ ticket' = ticket
      /\ batchTx' = [c \in DOMAIN batchTx \cup {b} |->
                        IF c = b THEN "processing" ELSE batchTx[c]]
      /\ DOMAIN chain' = DOMAIN chain \cup {b}
      /\ \A c \in DOMAIN chain' :
            chain'[c] = IF c = b THEN [pays |-> Paid(lane[l].items),
                                       actions |-> NumActions(lane[l].items),
                                       state |-> "sent", at |-> NoIndex]
                        ELSE chain[c]
  BY DEF SignOk, CreateSignedTransaction
<1>5. \A i \in 1..lastItemId :
          /\ queue'[i].batch_id = IF i \in ids THEN b ELSE queue[i].batch_id
          /\ queue'[i].is_stalled = queue[i].is_stalled
  BY <1>4, Tables DEF AssignedRows, Update, Rows, Row, LifeInv
<1>6. /\ b \notin DOMAIN chain /\ b \notin DOMAIN batchTx /\ b # Null
      /\ Null \notin ids
  BY <1>2 DEF LifeInv, Base, TypeOK, ChainTypeOK, QueueTypeOK, Null
<1> HIDE DEF b, ids
<1>7. PaymentCounts' = PaymentCounts
  BY <1>4, <1>6, PaidUnchanged DEF LifeInv, Executed
<1>8. S \subseteq Lifecycle!In("pending")
  <2> SUFFICES ASSUME NEW r \in S
               PROVE  ShownStatus[r] = "pending"
    BY DEF Lifecycle!In
  <2> QED BY <1>1, <1>3, <1>6 DEF ShownBy, Seen
<1>9. \A r \in Requests : ShownStatus'[r] = IF r \in S THEN "processing" ELSE ShownStatus[r]
  <2> SUFFICES ASSUME NEW r \in Requests
               PROVE  ShownStatus'[r] = IF r \in S THEN "processing" ELSE ShownStatus[r]
    OBVIOUS
  <2>1. ticket[r] # Null => ticket[r] \in 1..lastItemId
    BY DEF LifeInv, Base, TypeOK, QueueTypeOK, Null
  <2>2. CASE ticket[r] \in ids
    <3>1. Seen(queue', batchTx', ticket[r]) = "processing"
      BY <1>3, <1>4, <1>5, <1>6, <2>1, <2>2 DEF Seen
    <3> QED BY <1>1, <1>4, <1>6, <2>2, <3>1 DEF ShownBy
  <2>3. CASE ticket[r] \notin ids
    <3>1. ticket[r] # Null /\ queue[ticket[r]].batch_id # Null
              => queue[ticket[r]].batch_id \in DOMAIN batchTx
      BY <2>1, Tables DEF LifeInv, NeverOrphaned
    <3>2. ticket[r] # Null => Seen(queue', batchTx', ticket[r]) = Seen(queue, batchTx, ticket[r])
      BY <1>4, <1>5, <1>6, <2>1, <2>3, <3>1 DEF Seen
    <3> QED BY <1>1, <1>4, <2>3, <3>2 DEF ShownBy
  <2> QED BY <2>2, <2>3
<1>10. ShownStatus' = [r \in Requests |-> IF r \in S THEN "processing" ELSE ShownStatus[r]]
  BY <1>1, <1>9 DEF ShownBy
<1> HIDE DEF S
<1> QED BY <1>7, <1>8, <1>10 DEF Lifecycle!Take, Lifecycle!Move

\* The chain pays what is in flight, once: the rows of a transaction that it has not
\* decided about are in its batch, which has not succeeded.
LEMMA LifeExecute ==
    ASSUME LifeInv, Base', NeverOrphaned', NEW b, ChainExecute(b)
    PROVE  Lifecycle!Pay
<1> DEFINE S == {r \in Requests : r \in chain[b].pays}
<1>1. /\ b \in DOMAIN chain /\ chain[b].state = "sent"
      /\ UNCHANGED <<queue, batchTx, ticket>>
      /\ DOMAIN chain' = DOMAIN chain
      /\ \A c \in DOMAIN chain : /\ chain'[c].pays = chain[c].pays
                                 /\ chain'[c].state = IF c = b THEN "executed"
                                                      ELSE chain[c].state
  BY DEF ChainExecute, Settle, queueVars
<1>2. ShownStatus' = ShownStatus
  BY <1>1 DEF ShownStatus, StatusOf
<1>3. Executed' = Executed \cup {b}
  BY <1>1 DEF Executed
<1>4. \A r \in Requests : Payments(r)' = IF r \in S THEN Payments(r) \cup {b}
                                         ELSE Payments(r)
  BY <1>1, <1>3 DEF Payments, Executed
<1>5. b # Null
  BY <1>1 DEF LifeInv, Base, TypeOK, ChainTypeOK, Null
<1>6. S \subseteq InBatch(b)
  BY <1>1 DEF LifeInv, OnceInv, PaidRowsPinned, OnTheWay, InBatch
<1>7. \A r \in S : Payments(r) = {}
  BY <1>1, <1>6, PaidByItsBatch DEF InBatch
<1>8. S # {} => b \in PendingBatchTransactions
  <2> SUFFICES ASSUME S # {}
               PROVE  b \in PendingBatchTransactions
    OBVIOUS
  <2>1. PICK r \in Requests : r \in InBatch(b)
    BY <1>6
  <2>2. b \in DOMAIN batchTx
    <3>1. ticket[r] \in 1..lastItemId
      BY <2>1 DEF InBatch, LifeInv, Base, TypeOK, QueueTypeOK, Null
    <3> QED BY <1>5, <2>1, <3>1, Tables DEF InBatch, LifeInv, NeverOrphaned
  <2>3. batchTx[b] # "success"
    BY <1>1, <2>2 DEF LifeInv, PaidInv, BatchesKnown, Succeeded
  <2> QED BY <2>2, <2>3
          DEF PendingBatchTransactions, LifeInv, Base, TypeOK, QueueTypeOK, BatchStatus
<1>9. S \subseteq Lifecycle!In("processing")
  BY <1>6, <1>8, InBatchShown
<1> HIDE DEF S
<1>10. S \subseteq Lifecycle!PaidTimes(0)
  BY <1>6, <1>7, CountsShown DEF InBatch
<1>11. PaymentCounts' = [r \in Requests |-> IF r \in S THEN PaymentCounts[r] + 1
                                           ELSE PaymentCounts[r]]
  <2> SUFFICES ASSUME NEW r \in Requests
               PROVE  Cardinality(Payments(r)') = IF r \in S THEN Cardinality(Payments(r)) + 1
                                                  ELSE Cardinality(Payments(r))
    BY DEF PaymentCounts
  <2>1. CASE r \in S
    <3>1. Payments(r) = {} /\ Payments(r)' = {b}
      BY <1>4, <1>7, <2>1
    <3>2. Cardinality({}) = 0 /\ Cardinality({b}) = 1
      BY FS_EmptySet, FS_Singleton
    <3> QED BY <2>1, <3>1, <3>2
  <2>2. CASE r \notin S
    BY <1>4, <2>2
  <2> QED BY <2>1, <2>2
<1> QED BY <1>2, <1>9, <1>10, <1>11 DEF Lifecycle!Pay

\* A refusal pays nothing, and nobody has seen it yet.
LEMMA LifeRefused ==
    ASSUME LifeInv, NEW b, NEW outcome, NEW index, Settle(b, outcome, index),
           outcome # "executed"
    PROVE  UNCHANGED Lifecycle!vars
<1>1. /\ b \in DOMAIN chain /\ chain[b].state = "sent"
      /\ UNCHANGED <<queue, batchTx, ticket>>
      /\ DOMAIN chain' = DOMAIN chain
      /\ \A c \in DOMAIN chain : /\ chain'[c].pays = chain[c].pays
                                 /\ chain'[c].state = IF c = b THEN outcome ELSE chain[c].state
  BY DEF Settle, queueVars
<1>2. ShownStatus' = ShownStatus
  BY <1>1 DEF ShownStatus, StatusOf
<1>3. PaymentCounts' = PaymentCounts
  BY <1>1, PaidUnchanged DEF LifeInv, Executed
<1> QED BY <1>2, <1>3 DEF Lifecycle!vars

\* Success is reported for the rows of the batch, which the chain has paid.
LEMMA LifeSuccess ==
    ASSUME LifeInv, Base', NeverOrphaned', NEW l \in Lanes, RespondSuccess(l)
    PROVE  Lifecycle!Succeed
<1>1. PICK b : b = lane[l].batch
  OBVIOUS
<1>2. /\ b \in PendingBatchTransactions /\ b \in DOMAIN chain /\ b # Null
      /\ chain[b].state = "executed" /\ UNCHANGED <<chain, ticket>>
      /\ queue' = DepositedRows(queue, b)
      /\ batchTx' = [c \in DOMAIN batchTx |-> IF c = b THEN "success" ELSE batchTx[c]]
  <2>1. b \in DOMAIN chain
    BY <1>1 DEF RespondSuccess, Answered, Lane, LifeInv, Base, TypeOK, LaneTypeOK
  <2>2. b # Null
    BY <2>1 DEF LifeInv, Base, TypeOK, ChainTypeOK, Null
  <2> QED BY <1>1, <2>1, <2>2 DEF RespondSuccess, Answered, MarkBatchSuccess, Return, LifeInv, SentAsHeld
<1>3. /\ ShownStatus = ShownBy(queue, batchTx, ticket)
      /\ ShownStatus' = ShownBy(queue', batchTx', ticket')
  BY ShownIsSeen DEF LifeInv
<1>4. InBatch(b) \subseteq Lifecycle!In("processing")
  BY <1>2, InBatchShown
<1>5. InBatch(b) \subseteq Lifecycle!PaidTimes(1)
  <2> SUFFICES ASSUME NEW r \in InBatch(b)
               PROVE  r \in Lifecycle!PaidTimes(1)
    OBVIOUS
  <2>1. r \in Requests /\ ticket[r] \in DOMAIN queue /\ queue[ticket[r]].batch_id = b
    BY Tables DEF InBatch, LifeInv, Base, TypeOK, QueueTypeOK, Null
  <2>2. r \in queue[ticket[r]].amount
    BY <2>1 DEF LifeInv, Base, TicketHolds
  <2>3. r \in chain[b].pays
    BY <1>2, <2>1, <2>2 DEF LifeInv, PaidInv, RowsPaidByBatch
  <2>4. b \in Payments(r)
    BY <1>2, <2>3 DEF Payments, Executed
  <2> QED BY <2>1, <2>4, PaidByItsBatch, CountsShown
<1>6. PaymentCounts' = PaymentCounts
  BY <1>2 DEF PaymentCounts, Payments, Executed
<1>7. SameBatches(queue, queue')
  BY <1>2, Tables, DepositedKeeps DEF LifeInv
<1>8. \A r \in Requests : ShownStatus'[r] = IF r \in InBatch(b) THEN "success" ELSE ShownStatus[r]
  <2> SUFFICES ASSUME NEW r \in Requests
               PROVE  ShownStatus'[r] = IF r \in InBatch(b) THEN "success" ELSE ShownStatus[r]
    OBVIOUS
  <2>1. ticket[r] # Null => ticket[r] \in DOMAIN queue
    BY Tables DEF LifeInv, Base, TypeOK, QueueTypeOK, Null
  <2>2. CASE r \in InBatch(b)
    <3>1. ~ queue[ticket[r]].is_stalled
      BY <1>2, <2>1, <2>2 DEF InBatch, LifeInv, OnceInv, BatchedUnstalled
    <3>2. b \in DOMAIN batchTx
      BY <1>2 DEF PendingBatchTransactions
    <3>3. Seen(queue', batchTx', ticket[r]) = "success"
      BY <1>2, <1>7, <2>1, <2>2, <3>1, <3>2 DEF Seen, InBatch, SameBatches
    <3> QED BY <1>2, <1>3, <2>2, <3>3 DEF ShownBy, InBatch
  <2>3. CASE r \notin InBatch(b)
    <3>1. ticket[r] # Null /\ queue[ticket[r]].batch_id # Null
              => queue[ticket[r]].batch_id \in DOMAIN batchTx
      BY <2>1 DEF LifeInv, NeverOrphaned
    <3>2. ticket[r] # Null => Seen(queue', batchTx', ticket[r]) = Seen(queue, batchTx, ticket[r])
      BY <1>2, <1>7, <2>1, <2>3, <3>1 DEF Seen, InBatch, SameBatches
    <3> QED BY <1>2, <1>3, <2>3, <3>2 DEF ShownBy
  <2> QED BY <2>2, <2>3
<1>9. ShownStatus' = [r \in Requests |-> IF r \in InBatch(b) THEN "success" ELSE ShownStatus[r]]
  BY <1>3, <1>8 DEF ShownBy
<1> QED BY <1>4, <1>5, <1>6, <1>9 DEF Lifecycle!Succeed, Lifecycle!Move

\* What the chain has refused goes back, or is put aside; the other rows stay as they
\* are, for the stalled item was in the batch, and no waiting row is over its cap.
LEMMA LifeGivesUp ==
    ASSUME LifeInv, Base', NeverOrphaned', NEW l \in Lanes, NEW S, GivesUp(l, S),
           lane[l].batch # Null, chain[lane[l].batch].state \notin {"sent", "executed"},
           S \subseteq ItemsToProcess(lane[l].items)
    PROVE  Lifecycle!GiveBack
<1>1. PICK b : b = lane[l].batch
  OBVIOUS
<1> DEFINE T == {r \in InBatch(b) : queue'[ticket[r]].is_stalled}
<1>2. /\ b \in PendingBatchTransactions /\ b # Null /\ chain[b].state # "executed"
      /\ GivenBack(queue, queue', b, S) /\ batchTx' = Without(batchTx, b)
      /\ UNCHANGED <<chain, ticket>>
  BY <1>1 DEF GivesUp, Return, LifeInv, SentAsHeld
<1>3. /\ ShownStatus = ShownBy(queue, batchTx, ticket)
      /\ ShownStatus' = ShownBy(queue', batchTx', ticket')
  BY ShownIsSeen DEF LifeInv
<1>4. InBatch(b) \subseteq Lifecycle!In("processing")
  BY <1>2, InBatchShown
<1>5. InBatch(b) \subseteq Lifecycle!PaidTimes(0)
  <2> SUFFICES ASSUME NEW r \in InBatch(b)
               PROVE  Payments(r) = {}
    BY CountsShown DEF InBatch
  <2> QED BY <1>2, PaidByItsBatch DEF InBatch
<1>6. PaymentCounts' = PaymentCounts
  BY <1>2 DEF PaymentCounts, Payments, Executed
<1>7. ASSUME NEW i \in DOMAIN queue, queue[i].batch_id = b
      PROVE  Seen(queue', batchTx', i) = IF queue'[i].is_stalled THEN "stalled" ELSE "pending"
  BY <1>2, <1>7 DEF Seen, GivenBack
<1>8. ASSUME NEW i \in DOMAIN queue, queue[i].batch_id # b
      PROVE  Seen(queue', batchTx', i) = Seen(queue, batchTx, i)
  <2>1. /\ queue'[i].batch_id = queue[i].batch_id
        /\ queue'[i].retry_count = queue[i].retry_count
        /\ queue'[i].is_stalled = (\/ queue[i].is_stalled
                                   \/ i \in S
                                   \/ queue[i].batch_id = Null /\ queue[i].retry_count > MaxRetries)
    BY <1>2, <1>8 DEF GivenBack
  <2>2. i \notin S
    BY <1>1, <1>2, <1>8 DEF LifeInv, SentStayBatched
  <2>3. ~ queue[i].is_stalled => ~ (queue[i].retry_count > MaxRetries)
    <3>1. queue[i].retry_count \in Nat /\ MaxRetries \in Nat
      BY Tables, QueueAssumption DEF LifeInv, Base, TypeOK, QueueTypeOK, Row
    <3> QED BY <3>1 DEF LifeInv, RetriesLeft
  <2>4. queue[i].is_stalled \in BOOLEAN
    BY Tables DEF LifeInv, Base, TypeOK, QueueTypeOK, Row
  <2>5. queue'[i].is_stalled = queue[i].is_stalled
    BY <2>1, <2>2, <2>3, <2>4
  <2>6. queue[i].batch_id # Null => queue[i].batch_id \in DOMAIN batchTx
    BY DEF LifeInv, NeverOrphaned
  <2> QED BY <1>2, <1>8, <2>1, <2>5, <2>6 DEF Seen, Without
<1>9. \A r \in Requests : ShownStatus'[r] = IF r \in T THEN "stalled"
                                            ELSE IF r \in InBatch(b) THEN "pending"
                                            ELSE ShownStatus[r]
  <2> SUFFICES ASSUME NEW r \in Requests
               PROVE  ShownStatus'[r] = IF r \in T THEN "stalled"
                                        ELSE IF r \in InBatch(b) THEN "pending"
                                        ELSE ShownStatus[r]
    OBVIOUS
  <2>1. ticket[r] # Null => ticket[r] \in DOMAIN queue
    BY Tables DEF LifeInv, Base, TypeOK, QueueTypeOK, Null
  <2>2. CASE r \in InBatch(b)
    <3>1. Seen(queue', batchTx', ticket[r])
            = IF queue'[ticket[r]].is_stalled THEN "stalled" ELSE "pending"
      BY <1>7, <2>1, <2>2 DEF InBatch
    <3> QED BY <1>2, <1>3, <2>2, <3>1 DEF ShownBy, InBatch
  <2>3. CASE r \notin InBatch(b)
    <3>1. ticket[r] # Null => Seen(queue', batchTx', ticket[r]) = Seen(queue, batchTx, ticket[r])
      BY <1>8, <2>1, <2>3 DEF InBatch
    <3> QED BY <1>2, <1>3, <2>3, <3>1 DEF ShownBy
  <2> QED BY <2>2, <2>3
<1>10. ShownStatus' = [r \in Requests |-> IF r \in T THEN "stalled"
                                          ELSE IF r \in InBatch(b) THEN "pending"
                                          ELSE ShownStatus[r]]
  BY <1>3, <1>9 DEF ShownBy
<1>11. T \subseteq InBatch(b)
  OBVIOUS
<1> HIDE DEF T
<1> QED BY <1>4, <1>5, <1>6, <1>10, <1>11 DEF Lifecycle!GiveBack

LEMMA LifeLaneStep ==
    ASSUME Orderly, LifeInv, Base', NeverOrphaned', NEW l \in Lanes, LaneStep(l)
    PROVE  [Lifecycle!Next]_Lifecycle!vars
<1>1. lane[l].batch # Null /\ lane[l].batch \in DOMAIN chain /\ lane[l].pc = "sending"
  <2>1. lane[l].pc \in {"sending", "backoff"}
    BY LaneStepCases DEF LifeInv
  <2> QED BY <2>1 DEF LifeInv, NoBackoff, Base, TypeOK, LaneTypeOK, ChainTypeOK, Null
<1>2. CASE RespondSuccess(l)
  BY <1>2, LifeSuccess DEF Lifecycle!Next
<1>3. CASE RespondActionError(l)
           /\ GivesUp(l, {ItemAt(lane[l].items, chain[lane[l].batch].at)})
  <2>1. ItemAt(lane[l].items, chain[lane[l].batch].at) \in ItemsToProcess(lane[l].items)
    BY <1>3, FailingOwner DEF LifeInv, RespondActionError
  <2>2. chain[lane[l].batch].state \notin {"sent", "executed"}
    BY <1>3 DEF RespondActionError, Answered
  <2> QED BY <1>1, <1>3, <2>1, <2>2, LifeGivesUp DEF Lifecycle!Next
<1>4. CASE (RespondIndexOutOfRange(l) \/ RespondInvalidTx(l)) /\ GivesUp(l, {})
  <2>1. chain[lane[l].batch].state \notin {"sent", "executed"}
    BY <1>4 DEF RespondIndexOutOfRange, RespondInvalidTx, Answered
  <2> QED BY <1>1, <1>4, <2>1, LifeGivesUp DEF Lifecycle!Next
<1>5. CASE RespondUnknownFailure(l) /\ UNCHANGED queueVars
  <2>1. UNCHANGED Lifecycle!vars
    BY <1>5, LifeStutter DEF RespondUnknownFailure, Return, queueVars
  <2> QED BY <2>1
<1>6. ~ NetworkError(l)
  BY DEF NetworkError, Orderly, Undisturbed
<1>7. ~ Backoff(l)
  <2>1. chain[lane[l].batch].state \in Outcomes
    BY <1>1 DEF LifeInv, Base, TypeOK, ChainTypeOK, Transaction
  <2> QED BY <2>1 DEF Backoff, Outcomes, Orderly, NoRefusals
<1>8. ~ BackoffDone(l)
  BY <1>1 DEF BackoffDone, Lane
<1> QED BY <1>2, <1>3, <1>4, <1>5, <1>6, <1>7, <1>8, LaneStepCases DEF LifeInv

\* When start() runs nothing has been sent, so that it has nothing to recover.
LEMMA LifeLoopStep ==
    ASSUME LifeInv, Base', NeverOrphaned', LoopStep
    PROVE  UNCHANGED Lifecycle!vars
<1>1. ASSUME NEW pending, pending \subseteq DOMAIN batchTx, RecoverStep(pending),
             UNCHANGED chain, phase \in {"starting", "recovering"}
      PROVE  UNCHANGED Lifecycle!vars
  <2>1. DOMAIN batchTx = {}
    BY <1>1 DEF LifeInv, OnceInv, NothingSentBeforeLoop, PaidInv, BatchesKnown
  <2>2. Recover
    BY <1>1, <2>1 DEF RecoverStep
  <2>3. queue' = queue
    BY <2>1, <2>2, Tables DEF Recover, ResetRows, Update, LifeInv, Rows
  <2>4. batchTx' = batchTx
    <3>1. batchTx \in [DOMAIN batchTx -> BatchStatus]
      BY DEF LifeInv, Base, TypeOK, QueueTypeOK
    <3> QED BY <2>1, <2>2, <3>1 DEF Recover, SuccessfulOnly
  <2> QED BY <1>1, <2>2, <2>3, <2>4, LifeStutter DEF Recover
<1>2. CASE StartRecovery
  BY <1>1, <1>2 DEF StartRecovery, PendingBatchTransactions
<1>3. CASE RecoverNext
  <2>1. todo \subseteq DOMAIN batchTx
    BY <1>3 DEF RecoverNext, LifeInv, LaneInv, RecoveryExact, PendingBatchTransactions
  <2> QED BY <1>1, <1>3, <2>1 DEF RecoverNext
<1>4. CASE Wake \/ LoopCompleted
  BY <1>4, LifeStutter DEF Wake, LoopCompleted, queueVars
<1> QED BY <1>2, <1>3, <1>4 DEF LoopStep

\* Every step of the executor is a step of the life cycle, or changes nothing in it.
LEMMA LifeStep ==
    ASSUME Orderly, LifeInv, Base', NeverOrphaned', [Next]_vars
    PROVE  [Lifecycle!Next]_Lifecycle!vars
<1>1. CASE UNCHANGED <<queue, batchTx, ticket, chain>>
  BY <1>1, LifeStutter
<1>2. CASE LoopStep
  BY <1>2, LifeLoopStep
<1>3. ASSUME NEW l \in Lanes, SignOk(l)
      PROVE  [Lifecycle!Next]_Lifecycle!vars
  BY <1>3, LifeSignOk DEF Lifecycle!Next
<1>4. ASSUME NEW l \in Lanes, LaneStep(l)
      PROVE  [Lifecycle!Next]_Lifecycle!vars
  BY <1>4, LifeLaneStep
<1>5. ASSUME NEW l \in Lanes, SignFail(l)
      PROVE  [Lifecycle!Next]_Lifecycle!vars
  BY <1>1, <1>5 DEF SignFail, Return, queueVars
<1>6. CASE ChainStep
  <2>1. PICK b \in DOMAIN chain : ChainExecute(b) \/ ChainActionError(b) \/ ChainRefuse(b)
    BY <1>6 DEF ChainStep
  <2>2. CASE ChainExecute(b)
    BY <2>2, LifeExecute DEF Lifecycle!Next
  <2>3. CASE ChainActionError(b) \/ ChainRefuse(b)
    <3>1. UNCHANGED Lifecycle!vars
      BY <2>3, LifeRefused DEF ChainActionError, ChainRefuse
    <3> QED BY <3>1
  <2> QED BY <2>1, <2>2, <2>3
<1>7. ASSUME NEW r \in Requests, NEW d \in DepositFlags, Post(r, d)
      PROVE  [Lifecycle!Next]_Lifecycle!vars
  BY <1>7, LifePost DEF Lifecycle!Next
<1>8. ~ Unstall
  BY DEF Unstall, Orderly, LifeInv, Base, TypeOK
<1>9. ~ LoseMemory
  <2>1. crashes = 0
    BY DEF Orderly, Undisturbed, LifeInv, Base, TypeOK
  <2> QED BY <2>1 DEF LoseMemory, Orderly, Undisturbed
<1>10. CASE Boot \/ WaitUntilIdle \/ UNCHANGED vars
  BY <1>1, <1>10 DEF Boot, WaitUntilIdle, vars, queueVars, execVars
<1> QED BY <1>2, <1>3, <1>4, <1>5, <1>6, <1>7, <1>8, <1>9, <1>10
        DEF Next, Crash, CrashAfterStalling

LEMMA NoBackoffInvariant ==
    ASSUME NoRefusals
    PROVE  Spec => []NoBackoff
<1>1. Init => NoBackoff
  BY IdleFields DEF Init, NoBackoff
<1>2. Base /\ NoBackoff /\ [Next]_vars => NoBackoff'
  BY NoBackoffStep
<1> QED BY <1>1, <1>2, LaneInvariant, PTL DEF Spec

\* The executor implements the life cycle of the README with exactly one payment, for
\* every number of requests, keys and retries, any batch size and action limit: where
\* nothing is merged, every receiver has a deposit, no operator unstalls, and the
\* network answers, is not rate limited, and the service does not crash.
THEOREM LifecycleImplemented ==
    ASSUME Orderly
    PROVE  Spec => ImplementsLifecycle
<1>1. Init => Lifecycle!Init
  <2> SUFFICES ASSUME Init
               PROVE  Lifecycle!Init
    OBVIOUS
  <2>1. ShownStatus = [r \in Requests |-> "none"]
    BY DEF Init, QueueInit, ShownStatus
  <2>2. \A r \in Requests : Payments(r) = {}
    BY DEF Init, EmptyFunction, Payments, Executed
  <2>3. Cardinality({}) = 0
    BY FS_EmptySet
  <2>4. PaymentCounts = [r \in Requests |-> 0]
    BY <2>2, <2>3 DEF PaymentCounts
  <2> QED BY <2>1, <2>4 DEF Lifecycle!Init
<1>2. LifeInv /\ LifeInv' /\ [Next]_vars => [Lifecycle!Next]_Lifecycle!vars
  <2> SUFFICES ASSUME LifeInv, LifeInv', [Next]_vars
               PROVE  [Lifecycle!Next]_Lifecycle!vars
    OBVIOUS
  <2>1. Base' /\ NeverOrphaned'
    BY DEF LifeInv
  <2> QED BY <2>1, LifeStep
<1>3. Spec => /\ []SigningUnstalled /\ []SentStayBatched /\ []AllDeposited /\ []RetriesLeft
              /\ []PaidInv /\ []OnceInv /\ []NeverOrphaned /\ []NoBackoff
  BY SigningInvariant, BatchedInvariant, DepositInvariant, RetriesLeftInvariant,
     PaidInvariant, OnceInvariant, NoOrphans, NoBackoffInvariant DEF Orderly, Undisturbed, Uncapped
<1>4. Spec => []LifeInv
  BY <1>3, LaneInvariant, FailingIndexInvariant, HeldInvariant, PTL DEF LifeInv
<1> QED BY <1>1, <1>2, <1>4, PTL DEF Spec, ImplementsLifecycle, Lifecycle!Spec

=============================================================================
