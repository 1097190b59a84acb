--------------------------- MODULE ExecutorProofs ---------------------------
(***************************************************************************)
(* Type correctness of the executor for every number of keys, requests,    *)
(* crashes, retries and unstall calls; and no row is lost in a deleted     *)
(* batch, if the node never refuses a transaction in the way that          *)
(* recoverFailedBatch handles without clearing batch_id.                   *)
(***************************************************************************)
EXTENDS Executor, TransferQueueProofs, FiniteSetTheorems

Base == TypeOK /\ TicketHolds

ASSUMED == QueueAssumption /\ ExecutorAssumption

-----------------------------------------------------------------------------
(* Batches *)

LEMMA SliceIsPending ==
    ASSUME NEW q, NEW n, NEW l, NEW i \in Slice(Peek(q, n), l)
    PROVE  i \in DOMAIN q /\ q[i].batch_id = Null /\ ~ q[i].is_stalled
  BY DEF Slice, Peek, Pending

\* A transaction has a natural number of actions.
LEMMA NumActionsType ==
    ASSUME NEW n \in Nat, NEW items, DOMAIN items \subseteq 1..n
    PROVE  NumActions(items) \in Nat
<1> DEFINE ids == ItemsToProcess(items)
           new == {j \in ids : ~ items[j].has_storage_deposit}
<1>1. IsFiniteSet(1..n)
  BY FS_Interval
<1>2. ids \subseteq 1..n /\ new \subseteq 1..n
  BY DEF ItemsToProcess
<1>3. IsFiniteSet(ids) /\ IsFiniteSet(new)
  BY <1>1, <1>2, FS_Subset
<1>4. Cardinality(ids) \in Nat /\ Cardinality(new) \in Nat
  BY <1>3, FS_CardinalityType
<1> HIDE DEF ids, new
<1>5. Cardinality(ids) + Cardinality(new) \in Nat
  BY <1>4
<1> QED BY <1>5 DEF NumActions, ActionsOf, ids, new

LEMMA PaidType ==
    ASSUME NEW n \in Nat, NEW items, items \in [DOMAIN items -> Row]
    PROVE  Paid(items) \subseteq Requests
  BY DEF Paid, ItemsToProcess, Row

-----------------------------------------------------------------------------
(* Type correctness: the lanes *)

LEMMA LaneKept ==
    ASSUME LaneTypeOK, lane' = lane, lastItemId \in Nat, lastItemId' \in Nat,
           lastItemId <= lastItemId', DOMAIN chain \subseteq DOMAIN chain'
    PROVE  LaneTypeOK'
<1>1. 1..lastItemId \subseteq 1..lastItemId'
  OBVIOUS
<1> QED BY <1>1 DEF LaneTypeOK

\* One lane moves, the others stay.
LEMMA LaneMoved ==
    ASSUME LaneTypeOK, NEW l \in Lanes, NEW new, lane' = [lane EXCEPT ![l] = new],
           new.pc \in LanePcs,
           DOMAIN new.items \subseteq 1..lastItemId,
           new.items \in [DOMAIN new.items -> Row],
           IF new.pc \in {"sending", "backoff"}
           THEN new.batch \in DOMAIN chain' ELSE new.batch = Null,
           lastItemId' = lastItemId, DOMAIN chain \subseteq DOMAIN chain'
    PROVE  LaneTypeOK'
<1> SUFFICES ASSUME NEW m \in Lanes
             PROVE  /\ lane'[m].pc \in LanePcs
                    /\ DOMAIN lane'[m].items \subseteq 1..lastItemId
                    /\ lane'[m].items \in [DOMAIN lane'[m].items -> Row]
                    /\ IF lane'[m].pc \in {"sending", "backoff"}
                       THEN lane'[m].batch \in DOMAIN chain'
                       ELSE lane'[m].batch = Null
  BY DEF LaneTypeOK
<1>1. lane'[m] = IF m = l THEN new ELSE lane[m]
  BY DEF LaneTypeOK
<1> QED BY <1>1 DEF LaneTypeOK

LEMMA IdleFields ==
    /\ IdleLane.pc = "idle" /\ IdleLane.batch = Null
    /\ DOMAIN IdleLane.items = {}
    /\ IdleLane.items \in [{} -> Row]
  BY DEF IdleLane, LaneAt, EmptyFunction

LEMMA LaneReturned ==
    ASSUME LaneTypeOK, NEW l \in Lanes, lane' = [lane EXCEPT ![l] = IdleLane],
           UNCHANGED <<lastItemId, chain>>
    PROVE  LaneTypeOK'
  BY LaneMoved, IdleFields DEF LanePcs

LEMMA LanesIdle ==
    ASSUME lane' = [l \in Lanes |-> IdleLane]
    PROVE  LaneTypeOK'
  BY IdleFields DEF LaneTypeOK, LanePcs

\* A poll fills lanes with copies of rows of the table it was given.
LEMMA PollType ==
    ASSUME NEW q \in Rows(lastItemId, lastBatchId), Poll(q), waiting \in BOOLEAN,
           UNCHANGED <<lastItemId, chain>>
    PROVE  /\ phase' \in {"sleeping", "batching"}
           /\ waiting' \in BOOLEAN
           /\ LaneTypeOK'
           /\ \A l \in Lanes :
                 /\ lane'[l].pc \in {"idle", "signing"}
                 /\ \A i \in DOMAIN lane'[l].items :
                       i \in DOMAIN q /\ lane'[l].items[i] = q[i]
<1> DEFINE peeked == Peek(q, NumKeys * BatchSize)
           copies(l) == [i \in Slice(peeked, l) |-> q[i]]
<1>1. q \in [1..lastItemId -> Row]
  BY DEF Rows
<1>2. ASSUME NEW l \in Lanes
      PROVE  lane'[l] \in {IdleLane, LaneAt("signing", copies(l), Null)}
  BY DEF Poll
<1>3. DOMAIN lane' = Lanes
  BY DEF Poll
<1>4. ASSUME NEW l \in Lanes
      PROVE  /\ lane'[l].pc \in {"idle", "signing"}
             /\ lane'[l].batch = Null
             /\ DOMAIN lane'[l].items \subseteq 1..lastItemId
             /\ \A i \in DOMAIN lane'[l].items : lane'[l].items[i] = q[i]
             /\ lane'[l].items \in [DOMAIN lane'[l].items -> Row]
  <2>1. CASE lane'[l] = IdleLane
    BY <2>1, IdleFields
  <2>2. CASE lane'[l] = LaneAt("signing", copies(l), Null)
    <3>1. lane'[l].pc = "signing" /\ lane'[l].items = copies(l) /\ lane'[l].batch = Null
      BY <2>2 DEF LaneAt
    <3>2. Slice(peeked, l) \subseteq 1..lastItemId
      BY <1>1, SliceIsPending
    <3>3. copies(l) \in [Slice(peeked, l) -> Row]
      BY <1>1, <3>2
    <3> QED BY <3>1, <3>2, <3>3
  <2> QED BY <1>2, <2>1, <2>2
<1>5. phase' \in {"sleeping", "batching"} /\ waiting' \in BOOLEAN
  BY Zenon DEF Poll, EndIteration
<1>6. LaneTypeOK'
  BY <1>3, <1>4 DEF LaneTypeOK, LanePcs
<1> QED BY <1>1, <1>4, <1>5, <1>6

-----------------------------------------------------------------------------
(* Type correctness and tickets: one step per action *)

\* A lane returns after a call of the queue.
LEMMA ReturnBase ==
    ASSUME Base, NEW l \in Lanes, Return(l), QueueTypeOK', TicketHolds',
           UNCHANGED <<lastItemId, lastBatchId>>
    PROVE  Base'
<1>1. LaneTypeOK'
  BY LaneReturned DEF Return, Base, TypeOK
<1> QED BY <1>1 DEF Return, Base, TypeOK, ChainTypeOK

\* A step of the loop, of start() or of the environment, that leaves the chain.
LEMMA LoopBase ==
    ASSUME Base, QueueTypeOK', TicketHolds', LaneTypeOK',
           UNCHANGED <<chain, lastBatchId>>,
           phase' \in Phases, todo' \subseteq 1..lastBatchId, waiting' \in BOOLEAN,
           crashes' \in 0..MaxCrashes, unstalls' \in 0..MaxUnstalls
    PROVE  Base'
  BY DEF Base, TypeOK, ChainTypeOK

LEMMA SignOkBase ==
    ASSUME Base, NEW l \in Lanes, SignOk(l)
    PROVE  Base'
<1> DEFINE items == lane[l].items
           b == lastBatchId + 1
           tx == [pays |-> Paid(items), actions |-> NumActions(items),
                  state |-> "sent", at |-> NoIndex]
<1>1. /\ lastItemId \in Nat /\ lastBatchId \in Nat
      /\ DOMAIN items \subseteq 1..lastItemId /\ items \in [DOMAIN items -> Row]
  BY DEF Base, TypeOK, QueueTypeOK, LaneTypeOK
<1>2. QueueTypeOK' /\ TicketHolds'
  BY CreateQueue DEF SignOk, Base, TypeOK
<1>3. lastBatchId' = b /\ lastItemId' = lastItemId
  BY DEF SignOk, CreateSignedTransaction
<1>4. tx \in Transaction
  <2>1. Paid(items) \in SUBSET Requests /\ NumActions(items) \in Nat
    BY <1>1, PaidType, NumActionsType
  <2> HIDE DEF items
  <2> QED BY <2>1 DEF Transaction, Outcomes, NoIndex
<1>5. chain' = [c \in DOMAIN chain \cup {b} |-> IF c = b THEN tx ELSE chain[c]]
  BY DEF SignOk
<1>6. ChainTypeOK'
  <2> HIDE DEF tx
  <2> QED BY <1>1, <1>3, <1>4, <1>5 DEF Base, TypeOK, ChainTypeOK
<1>7. LaneTypeOK'
  <2> DEFINE new == LaneAt("sending", items, b)
  <2>1. new.pc = "sending" /\ new.items = items /\ new.batch = b
    BY DEF LaneAt
  <2>2. lane' = [lane EXCEPT ![l] = new]
    BY DEF SignOk
  <2>3. DOMAIN chain \subseteq DOMAIN chain' /\ b \in DOMAIN chain'
    BY <1>5
  <2> HIDE DEF new
  <2> QED BY <1>1, <1>3, <2>1, <2>2, <2>3, LaneMoved DEF Base, TypeOK, LanePcs
<1> QED BY <1>1, <1>2, <1>3, <1>6, <1>7 DEF SignOk, Base, TypeOK

LEMMA RecoverReturnBase ==
    ASSUME Base, NEW l \in Lanes, NEW b, NEW without \in BOOLEAN,
           RecoverFailedBatch(b, TRUE, without), Return(l)
    PROVE  Base'
<1>1. QueueTypeOK' /\ TicketHolds'
  BY RecoverBatchQueue DEF Base, TypeOK
<1> QED BY <1>1, ReturnBase DEF RecoverFailedBatch

LEMMA RespondSuccessBase ==
    ASSUME Base, NEW l \in Lanes, RespondSuccess(l)
    PROVE  Base'
<1>1. QueueTypeOK' /\ TicketHolds'
  BY MarkSuccessQueue DEF RespondSuccess, Base, TypeOK
<1> QED BY <1>1, ReturnBase DEF RespondSuccess, MarkBatchSuccess

\* markItemStalled, then recoverFailedBatch, with no await in between.
LEMMA RespondActionErrorBase ==
    ASSUME Base, NEW l \in Lanes, RespondActionError(l)
    PROVE  Base'
<1> DEFINE b == lane[l].batch
           item == ItemAt(lane[l].items, chain[b].at)
<1>1. /\ queue \in Rows(lastItemId, lastBatchId)
      /\ lastItemId \in Nat /\ lastBatchId \in Nat
  BY QueueIsRows DEF Base, TypeOK, QueueTypeOK
<1>2. /\ StalledRows(queue, item) \in Rows(lastItemId, lastBatchId)
      /\ SameMoney(queue, StalledRows(queue, item))
  BY <1>1, StalledLemma
<1>3. queue' = RecoveredRows(StalledRows(queue, item), b, FALSE, FALSE)
  BY DEF RespondActionError
<1>4. /\ queue' \in Rows(lastItemId, lastBatchId)
      /\ SameMoney(StalledRows(queue, item), queue')
  BY <1>1, <1>2, <1>3, RecoveredLemma
<1>5. SameMoney(queue, queue')
  BY <1>2, <1>4 DEF SameMoney
<1>6. /\ DOMAIN batchTx' \subseteq DOMAIN batchTx
      /\ batchTx' \in [DOMAIN batchTx' -> BatchStatus]
  BY WithoutLemma DEF RespondActionError, Base, TypeOK
<1>7. QueueTypeOK' /\ TicketHolds'
  BY <1>4, <1>5, <1>6, TypeByRows, KeepsMoney DEF RespondActionError, Base, TypeOK
<1> QED BY <1>7, ReturnBase DEF RespondActionError

LEMMA BackoffBase ==
    ASSUME Base, NEW l \in Lanes, Backoff(l)
    PROVE  Base'
<1> DEFINE new == LaneAt("backoff", lane[l].items, lane[l].batch)
<1>1. QueueTypeOK' /\ TicketHolds'
  BY StutterQueue DEF Backoff, Base, TypeOK
<1>2. new.pc = "backoff" /\ new.items = lane[l].items /\ new.batch = lane[l].batch
  BY DEF LaneAt
<1>3. lane' = [lane EXCEPT ![l] = new] /\ UNCHANGED <<lastItemId, lastBatchId, chain>>
  BY DEF Backoff, queueVars
<1>4. LaneTypeOK'
  <2> HIDE DEF new
  <2> QED BY <1>2, <1>3, LaneMoved DEF Base, TypeOK, LaneTypeOK, LanePcs, Backoff, Lane
<1> QED BY <1>1, <1>3, <1>4, LoopBase DEF Backoff, Base, TypeOK

LEMMA SettleBase ==
    ASSUME Base, NEW b, NEW outcome \in Outcomes, NEW index \in Int,
           Settle(b, outcome, index)
    PROVE  Base'
<1>1. QueueTypeOK' /\ TicketHolds'
  BY StutterQueue DEF Settle, Base, TypeOK
<1>2. lastItemId \in Nat /\ UNCHANGED <<lastItemId, lastBatchId, lane>>
  BY DEF Settle, queueVars, Base, TypeOK, QueueTypeOK
<1> DEFINE tx == [pays |-> chain[b].pays, actions |-> chain[b].actions,
                  state |-> outcome, at |-> index]
<1>3. chain[b] \in Transaction
  BY DEF Settle, Base, TypeOK, ChainTypeOK
<1>4. tx \in Transaction
  BY <1>3 DEF Transaction
<1>5. chain' = [chain EXCEPT ![b] = tx]
  BY DEF Settle
<1>6. ChainTypeOK' /\ DOMAIN chain' = DOMAIN chain
  <2> HIDE DEF tx
  <2> QED BY <1>2, <1>4, <1>5 DEF Base, TypeOK, ChainTypeOK
<1>7. LaneTypeOK'
  BY <1>2, <1>6, LaneKept DEF Base, TypeOK
<1> QED BY <1>1, <1>2, <1>6, <1>7 DEF Settle, Base, TypeOK

LEMMA ChainStepBase ==
    ASSUME Base, ChainStep
    PROVE  Base'
<1>1. PICK b \in DOMAIN chain : ChainExecute(b) \/ ChainActionError(b) \/ ChainRefuse(b)
  BY DEF ChainStep
<1>2. CASE ChainExecute(b)
  BY <1>2, SettleBase DEF ChainExecute, Outcomes, NoIndex
<1>3. CASE ChainActionError(b)
  <2>1. PICK k \in 0..(chain[b].actions - 1) : Settle(b, "actionError", k)
    BY <1>3 DEF ChainActionError
  <2>2. k \in Int /\ "actionError" \in Outcomes
    BY <1>3 DEF ChainActionError, Outcomes
  <2> QED BY <2>1, <2>2, SettleBase
<1>4. CASE ChainRefuse(b)
  BY <1>4, SettleBase DEF ChainRefuse, Outcomes, NoIndex
<1> QED BY <1>1, <1>2, <1>3, <1>4

LEMMA RecoverStepBase ==
    ASSUME Base, NEW pending, pending \subseteq 1..lastBatchId, RecoverStep(pending),
           UNCHANGED <<chain, crashes, unstalls>>
    PROVE  Base'
<1>1. ASSUME NEW b \in pending, RecoverFailedBatch(b, TRUE, FALSE),
             todo' = pending \ {b}, phase' = "recovering", UNCHANGED <<lane, waiting>>
      PROVE  Base'
  <2>1. QueueTypeOK' /\ TicketHolds' /\ UNCHANGED <<lastItemId, lastBatchId>>
    BY <1>1, RecoverBatchQueue DEF Base, TypeOK, RecoverFailedBatch
  <2>2. LaneTypeOK'
    BY <1>1, <2>1, LaneKept DEF Base, TypeOK, QueueTypeOK
  <2> QED BY <1>1, <2>1, <2>2, LoopBase DEF Base, TypeOK, Phases
<1>2. ASSUME Recover, todo' = {}, Poll(ResetRows(queue, batchTx))
      PROVE  Base'
  <2>1. QueueTypeOK' /\ TicketHolds' /\ UNCHANGED <<lastItemId, lastBatchId>>
    BY <1>2, RecoverQueue DEF Base, TypeOK, Recover
  <2>2. ResetRows(queue, batchTx) \in Rows(lastItemId, lastBatchId)
    BY QueueIsRows, ResetLemma DEF Base, TypeOK, QueueTypeOK
  <2>3. phase' \in {"sleeping", "batching"} /\ waiting' \in BOOLEAN /\ LaneTypeOK'
    BY <1>2, <2>1, <2>2, PollType DEF Base, TypeOK
  <2> QED BY <1>2, <2>1, <2>3, LoopBase DEF Base, TypeOK, Phases
<1> QED BY <1>1, <1>2 DEF RecoverStep

LEMMA LoopStepBase ==
    ASSUME Base, LoopStep
    PROVE  Base'
<1>1. CASE StartRecovery
  <2>1. PendingBatchTransactions \subseteq 1..lastBatchId
    BY DEF PendingBatchTransactions, Base, TypeOK, QueueTypeOK
  <2> QED BY <1>1, <2>1, RecoverStepBase DEF StartRecovery
<1>2. CASE RecoverNext
  BY <1>2, RecoverStepBase DEF RecoverNext, Base, TypeOK
<1>3. CASE Wake
  <2>1. QueueTypeOK' /\ TicketHolds'
    BY <1>3, StutterQueue DEF Wake, Base, TypeOK
  <2>2. phase' \in {"sleeping", "batching"} /\ waiting' \in BOOLEAN /\ LaneTypeOK'
    BY <1>3, QueueIsRows, PollType DEF Wake, Base, TypeOK, queueVars
  <2> QED BY <1>3, <2>1, <2>2, LoopBase DEF Wake, Base, TypeOK, Phases, queueVars
<1>4. CASE LoopCompleted
  <2>1. QueueTypeOK' /\ TicketHolds'
    BY <1>4, StutterQueue DEF LoopCompleted, Base, TypeOK
  <2>2. LaneTypeOK'
    BY <1>4, LaneKept DEF LoopCompleted, Base, TypeOK, QueueTypeOK, queueVars
  <2>3. waiting' \in BOOLEAN /\ phase' = "sleeping"
    BY <1>4, Zenon DEF LoopCompleted, EndIteration
  <2> QED BY <1>4, <2>1, <2>2, <2>3, LoopBase
          DEF LoopCompleted, Base, TypeOK, Phases, queueVars
<1> QED BY <1>1, <1>2, <1>3, <1>4 DEF LoopStep

\* A crash forgets the lanes; the tables are intact, or one row more is stalled.
LEMMA LoseMemoryBase ==
    ASSUME ExecutorAssumption, Base, LoseMemory, QueueTypeOK', TicketHolds',
           UNCHANGED <<lastItemId, lastBatchId>>
    PROVE  Base'
<1>1. LaneTypeOK'
  BY LanesIdle DEF LoseMemory
<1>2. crashes' \in 0..MaxCrashes
  BY DEF LoseMemory, Base, TypeOK, ExecutorAssumption
<1> QED BY <1>1, <1>2, LoopBase DEF LoseMemory, Base, TypeOK, Phases

LEMMA PostBase ==
    ASSUME QueueAssumption, Base, NEW r \in Requests, NEW d \in DepositFlags, Post(r, d)
    PROVE  Base'
<1>1. d \in BOOLEAN
  BY DEF QueueAssumption
<1>2. QueueTypeOK' /\ TicketHolds'
  BY <1>1, PushQueue DEF Post, Base, TypeOK
<1>3. /\ lastItemId \in Nat /\ lastItemId' \in {lastItemId, lastItemId + 1}
      /\ lastBatchId' = lastBatchId
  BY DEF Post, Push, Merge, Insert, Base, TypeOK, QueueTypeOK
<1>4. LaneTypeOK'
  BY <1>3, LaneKept DEF Post, execVars, Base, TypeOK
<1> QED BY <1>2, <1>3, <1>4, LoopBase DEF Post, execVars, Base, TypeOK

LEMMA UnstallBase ==
    ASSUME ExecutorAssumption, Base, Unstall
    PROVE  Base'
<1>1. PICK ids : /\ queue' = UnstalledRows(queue, ids)
                 /\ UNCHANGED <<lastItemId, batchTx, lastBatchId, ticket>>
  BY DEF Unstall, UnstallItem, UnstallItems, UnstallAll
<1>2. QueueTypeOK' /\ TicketHolds'
  BY <1>1, UnstallQueue DEF Base, TypeOK
<1>3. LaneTypeOK'
  BY <1>1, LaneKept DEF Unstall, Base, TypeOK, QueueTypeOK
<1>4. unstalls' \in 0..MaxUnstalls
  BY DEF Unstall, Base, TypeOK, ExecutorAssumption
<1> QED BY <1>1, <1>2, <1>3, <1>4, LoopBase DEF Unstall, Base, TypeOK

LEMMA BaseInit ==
    ASSUME ASSUMED, Init
    PROVE  Base
<1>1. QueueTypeOK /\ TicketHolds
  BY InitQueue DEF ASSUMED, Init
<1>2. LaneTypeOK
  BY IdleFields DEF Init, LaneTypeOK, LanePcs
<1>3. ChainTypeOK
  BY DEF Init, ChainTypeOK, EmptyFunction
<1>4. crashes \in 0..MaxCrashes /\ unstalls \in 0..MaxUnstalls
  BY DEF ASSUMED, ExecutorAssumption, Init
<1>5. phase \in Phases /\ todo \subseteq 1..lastBatchId /\ waiting \in BOOLEAN
  BY Zenon DEF Init, Phases
<1> QED BY <1>1, <1>2, <1>3, <1>4, <1>5 DEF Base, TypeOK

LEMMA LaneStepBase ==
    ASSUME Base, NEW l \in Lanes, LaneStep(l)
    PROVE  Base'
<1>1. CASE RespondSuccess(l)
  BY <1>1, RespondSuccessBase
<1>2. CASE RespondActionError(l)
  BY <1>2, RespondActionErrorBase
<1>3. CASE RespondIndexOutOfRange(l)
  BY <1>3, RecoverReturnBase DEF RespondIndexOutOfRange
<1>4. CASE RespondInvalidTx(l)
  BY <1>4, RecoverReturnBase DEF RespondInvalidTx
<1>5. CASE RespondUnknownFailure(l)
  BY <1>5, StutterQueue, ReturnBase DEF RespondUnknownFailure, queueVars, Base, TypeOK
<1>6. CASE NetworkError(l)
  BY <1>6, RecoverReturnBase DEF NetworkError
<1>7. CASE Backoff(l)
  BY <1>7, BackoffBase
<1>8. CASE BackoffDone(l)
  BY <1>8, RecoverReturnBase DEF BackoffDone
<1> QED BY <1>1, <1>2, <1>3, <1>4, <1>5, <1>6, <1>7, <1>8 DEF LaneStep

LEMMA BaseStep ==
    ASSUME ASSUMED, Base, [Next]_vars
    PROVE  Base'
<1> USE DEF ASSUMED
<1>1. CASE Boot
  <2>1. QueueTypeOK' /\ TicketHolds'
    BY <1>1, StutterQueue DEF Boot, Base, TypeOK
  <2>2. LaneTypeOK'
    BY <1>1, LaneKept DEF Boot, queueVars, Base, TypeOK, QueueTypeOK
  <2> QED BY <1>1, <2>1, <2>2, LoopBase DEF Boot, Base, TypeOK, Phases, queueVars
<1>2. CASE LoopStep
  BY <1>2, LoopStepBase
<1>3. ASSUME NEW l \in Lanes, SignOk(l)
      PROVE  Base'
  BY <1>3, SignOkBase
<1>4. ASSUME NEW l \in Lanes, SignFail(l)
      PROVE  Base'
  BY <1>4, StutterQueue, ReturnBase DEF SignFail, queueVars, Base, TypeOK
<1>5. ASSUME NEW l \in Lanes, LaneStep(l)
      PROVE  Base'
  BY <1>5, LaneStepBase
<1>6. ASSUME NEW l \in Lanes, CrashAfterStalling(l)
      PROVE  Base'
  <2>1. QueueTypeOK' /\ TicketHolds'
    BY <1>6, StallQueue DEF CrashAfterStalling, Base, TypeOK
  <2> QED BY <1>6, <2>1, LoseMemoryBase DEF CrashAfterStalling, MarkItemStalled
<1>7. CASE ChainStep
  BY <1>7, ChainStepBase
<1>8. CASE Crash
  BY <1>8, StutterQueue, LoseMemoryBase DEF Crash, queueVars, Base, TypeOK
<1>9. ASSUME NEW r \in Requests, NEW d \in DepositFlags, Post(r, d)
      PROVE  Base'
  BY <1>9, PostBase
<1>10. CASE Unstall
  BY <1>10, UnstallBase
<1>11. CASE WaitUntilIdle
  <2>1. QueueTypeOK' /\ TicketHolds'
    BY <1>11, StutterQueue DEF WaitUntilIdle, Base, TypeOK
  <2>2. LaneTypeOK'
    BY <1>11, LaneKept DEF WaitUntilIdle, queueVars, Base, TypeOK, QueueTypeOK
  <2> QED BY <1>11, <2>1, <2>2, LoopBase DEF WaitUntilIdle, Base, TypeOK, queueVars
<1>12. CASE UNCHANGED vars
  <2>1. QueueTypeOK' /\ TicketHolds'
    BY <1>12, StutterQueue DEF vars, Base, TypeOK
  <2>2. LaneTypeOK'
    BY <1>12, LaneKept DEF vars, execVars, queueVars, Base, TypeOK, QueueTypeOK
  <2> QED BY <1>12, <2>1, <2>2, LoopBase DEF vars, execVars, Base, TypeOK, queueVars
<1> QED BY <1>1, <1>2, <1>3, <1>4, <1>5, <1>6, <1>7, <1>8, <1>9, <1>10, <1>11, <1>12
        DEF Next

\* Every variable of the executor keeps its type, and every accepted request
\* keeps its one row, through signing, failures, restarts, crashes and unstalls.
THEOREM TypeInvariant == Spec => [](TypeOK /\ TicketHolds)
<1>1. ASSUMED
  BY QueueAssumption, ExecutorAssumption DEF ASSUMED
<1>2. Init => Base
  BY <1>1, BaseInit
<1>3. Base /\ [Next]_vars => Base'
  BY <1>1, BaseStep
<1> QED BY <1>2, <1>3, PTL DEF Spec, Base

-----------------------------------------------------------------------------
(* No row names a deleted batch *)

\* A transaction that is refused for the rate limit or the nonce is the only way
\* into the recovery that forgets to clear batch_id.
NoRefusals == Faults \cap {"rateLimit", "invalidNonce"} = {}

NoBackoff == \A l \in Lanes : lane[l].pc # "backoff"

OrphanInv == Base /\ NeverOrphaned /\ NoBackoff

LEMMA Tables ==
    ASSUME Base
    PROVE  /\ lastItemId \in Nat /\ lastBatchId \in Nat
           /\ DOMAIN queue = 1..lastItemId
           /\ queue \in Rows(lastItemId, lastBatchId)
           /\ DOMAIN lane = Lanes
  BY QueueIsRows DEF Base, TypeOK, QueueTypeOK, LaneTypeOK

\* A step that keeps the rows in their batches, or frees them, and deletes no batch.
LEMMA OrphanKept ==
    ASSUME NeverOrphaned, DOMAIN queue' = DOMAIN queue,
           \A i \in DOMAIN queue : queue'[i].batch_id \in {queue[i].batch_id, Null},
           DOMAIN batchTx \subseteq DOMAIN batchTx'
    PROVE  NeverOrphaned'
  BY DEF NeverOrphaned

\* Deleting a batch together with freeing its rows.
LEMMA OrphanFreed ==
    ASSUME NeverOrphaned, NEW b, DOMAIN queue' = DOMAIN queue,
           \A i \in DOMAIN queue :
               queue'[i].batch_id = IF queue[i].batch_id = b THEN Null ELSE queue[i].batch_id,
           DOMAIN batchTx' = DOMAIN batchTx \ {b}
    PROVE  NeverOrphaned'
  BY DEF NeverOrphaned

\* Counting a retry of batch b and capping the rows over the limit.
LEMMA RetriedFrees ==
    ASSUME NEW n \in Nat, NEW m \in Nat, NEW q \in Rows(n, m), NEW b
    PROVE  /\ CappedRows(RetriedRows(q, b)) \in Rows(n, m)
           /\ \A i \in 1..n : CappedRows(RetriedRows(q, b))[i].batch_id
                                = IF q[i].batch_id = b THEN Null ELSE q[i].batch_id
<1> DEFINE p == RetriedRows(q, b)
<1>1. p \in Rows(n, m)
  BY RetriedLemma
<1>2. \A i \in 1..n : p[i].batch_id = IF q[i].batch_id = b THEN Null ELSE q[i].batch_id
  BY RetriedIds
<1> HIDE DEF p
<1>3. CappedRows(p) \in Rows(n, m)
  BY <1>1, CappedLemma
<1>4. \A i \in 1..n : CappedRows(p)[i].batch_id = p[i].batch_id
  BY <1>1, CappedIds
<1>5. \A i \in 1..n : CappedRows(p)[i].batch_id
                        = IF q[i].batch_id = b THEN Null ELSE q[i].batch_id
  BY <1>2, <1>4
<1> USE DEF p
<1> QED BY <1>3, <1>5

\* The same after a first update that moves no row.
LEMMA OrphanRetried ==
    ASSUME Base, NeverOrphaned, NEW b, NEW q \in Rows(lastItemId, lastBatchId),
           \A i \in 1..lastItemId : q[i].batch_id = queue[i].batch_id,
           queue' = CappedRows(RetriedRows(q, b)), batchTx' = Without(batchTx, b)
    PROVE  NeverOrphaned'
<1>1. queue' \in Rows(lastItemId, lastBatchId)
  BY Tables, RetriedFrees
<1>2. \A i \in 1..lastItemId :
          queue'[i].batch_id = IF q[i].batch_id = b THEN Null ELSE q[i].batch_id
  BY Tables, RetriedFrees
<1>3. DOMAIN queue' = DOMAIN queue
  BY <1>1, Tables DEF Rows
<1>4. \A i \in DOMAIN queue :
          queue'[i].batch_id = IF queue[i].batch_id = b THEN Null ELSE queue[i].batch_id
  BY <1>2, Tables
<1>5. DOMAIN batchTx' = DOMAIN batchTx \ {b}
  BY DEF Without
<1> QED BY <1>3, <1>4, <1>5, OrphanFreed

LEMMA OrphanRecover ==
    ASSUME Base, NeverOrphaned, NEW b, RecoverFailedBatch(b, TRUE, FALSE)
    PROVE  NeverOrphaned'
<1> DEFINE told == ToldRows(queue, b)
<1>1. queue' = CappedRows(RetriedRows(told, b)) /\ batchTx' = Without(batchTx, b)
  BY DEF RecoverFailedBatch, RecoveredRows
<1>2. told \in Rows(lastItemId, lastBatchId)
  BY Tables, ToldLemma
<1>3. \A i \in 1..lastItemId : told[i].batch_id = queue[i].batch_id
  BY Tables, ToldIds
<1> HIDE DEF told
<1> QED BY <1>1, <1>2, <1>3, OrphanRetried

LEMMA OrphanActionError ==
    ASSUME Base, NeverOrphaned, NEW l \in Lanes, RespondActionError(l)
    PROVE  NeverOrphaned'
<1> DEFINE b == lane[l].batch
           item == ItemAt(lane[l].items, chain[b].at)
           marked == StalledRows(queue, item)
<1>1. queue' = CappedRows(RetriedRows(marked, b)) /\ batchTx' = Without(batchTx, b)
  BY DEF RespondActionError, RecoveredRows
<1>2. marked \in Rows(lastItemId, lastBatchId)
  BY Tables, StalledLemma
<1>3. \A i \in 1..lastItemId : marked[i].batch_id = queue[i].batch_id
  BY Tables, StalledIds
<1> HIDE DEF marked, b
<1> QED BY <1>1, <1>2, <1>3, OrphanRetried

LEMMA OrphanSignOk ==
    ASSUME Base, NeverOrphaned, NEW l \in Lanes, SignOk(l)
    PROVE  NeverOrphaned'
<1> DEFINE b == lastBatchId + 1
           ids == ItemsToProcess(lane[l].items)
<1>1. queue' = AssignedRows(queue, b, ids) /\ DOMAIN batchTx' = DOMAIN batchTx \cup {b}
  BY DEF SignOk, CreateSignedTransaction
<1>2. DOMAIN queue' = DOMAIN queue
  BY <1>1 DEF AssignedRows, Update
<1>3. \A i \in DOMAIN queue : queue'[i].batch_id \in {b, queue[i].batch_id}
  BY <1>1, Tables, AssignedIds
<1> QED BY <1>1, <1>2, <1>3 DEF NeverOrphaned

\* recover() frees exactly the rows whose batches it deletes.
LEMMA OrphanReset ==
    ASSUME Base, NeverOrphaned, Recover
    PROVE  NeverOrphaned'
<1>1. queue' = ResetRows(queue, batchTx) /\ batchTx' = SuccessfulOnly(batchTx)
  BY DEF Recover
<1>2. DOMAIN queue' = DOMAIN queue
  BY <1>1, Tables, ResetLemma DEF SameMoney
<1>3. \A i \in DOMAIN queue :
          queue'[i].batch_id
            = IF queue[i].batch_id \in DOMAIN batchTx /\ batchTx[queue[i].batch_id] = "processing"
              THEN Null ELSE queue[i].batch_id
  BY <1>1, Tables, ResetIds
<1>4. DOMAIN batchTx' = {b \in DOMAIN batchTx : batchTx[b] = "success"}
  BY <1>1 DEF SuccessfulOnly
<1>5. \A b \in DOMAIN batchTx : batchTx[b] \in {"processing", "success"}
  BY DEF Base, TypeOK, QueueTypeOK, BatchStatus
<1> QED BY <1>2, <1>3, <1>4, <1>5 DEF NeverOrphaned

LEMMA OrphanPush ==
    ASSUME Base, NeverOrphaned, NEW r, NEW d, Push(r, d)
    PROVE  NeverOrphaned'
<1>1. ASSUME NEW i \in Mergeable(Receiver[r]), Merge(r, i, d)
      PROVE  NeverOrphaned'
  <2>1. /\ DOMAIN queue' = DOMAIN queue /\ batchTx' = batchTx
        /\ \A j \in DOMAIN queue : queue'[j].batch_id = queue[j].batch_id
    BY <1>1, Tables DEF Merge, MergedRows, Update, Rows, Row
  <2> QED BY <2>1, OrphanKept
<1>2. ASSUME Insert(r, d)
      PROVE  NeverOrphaned'
  BY <1>2, Tables DEF Insert, NewRow, NeverOrphaned
<1> QED BY <1>1, <1>2 DEF Push

LEMMA OrphanLaneStep ==
    ASSUME Base, NeverOrphaned, NoBackoff, NEW l \in Lanes, LaneStep(l)
    PROVE  NeverOrphaned'
<1>1. CASE RespondSuccess(l)
  <2> DEFINE b == lane[l].batch
  <2>1. queue' = DepositedRows(queue, b) /\ DOMAIN batchTx' = DOMAIN batchTx
    BY <1>1 DEF RespondSuccess, MarkBatchSuccess
  <2> HIDE DEF b
  <2>2. DOMAIN queue' = DOMAIN queue
    BY <2>1 DEF DepositedRows, Update
  <2>3. \A i \in DOMAIN queue : queue'[i].batch_id = queue[i].batch_id
    BY <2>1, Tables, DepositedIds
  <2> QED BY <2>1, <2>2, <2>3, OrphanKept
<1>2. CASE RespondActionError(l)
  BY <1>2, OrphanActionError
<1>3. CASE RespondIndexOutOfRange(l)
  BY <1>3, OrphanRecover DEF RespondIndexOutOfRange
<1>4. CASE RespondInvalidTx(l)
  BY <1>4, OrphanRecover DEF RespondInvalidTx
<1>5. CASE RespondUnknownFailure(l)
  BY <1>5 DEF RespondUnknownFailure, queueVars, NeverOrphaned
<1>6. CASE NetworkError(l)
  BY <1>6, OrphanRecover DEF NetworkError
<1>7. CASE Backoff(l)
  BY <1>7 DEF Backoff, queueVars, NeverOrphaned
<1>8. CASE BackoffDone(l)
  BY <1>8 DEF BackoffDone, Lane, NoBackoff
<1> QED BY <1>1, <1>2, <1>3, <1>4, <1>5, <1>6, <1>7, <1>8 DEF LaneStep

LEMMA OrphanRecoverStep ==
    ASSUME Base, NeverOrphaned, NEW pending, RecoverStep(pending)
    PROVE  NeverOrphaned'
  BY OrphanRecover, OrphanReset DEF RecoverStep

LEMMA OrphanStep ==
    ASSUME Base, NeverOrphaned, NoBackoff, [Next]_vars
    PROVE  NeverOrphaned'
<1>1. CASE UNCHANGED queueVars
  BY <1>1 DEF queueVars, NeverOrphaned
<1>2. CASE LoopStep
  BY <1>1, <1>2, OrphanRecoverStep
     DEF LoopStep, StartRecovery, RecoverNext, Wake, LoopCompleted
<1>3. ASSUME NEW l \in Lanes, SignOk(l)
      PROVE  NeverOrphaned'
  BY <1>3, OrphanSignOk
<1>4. ASSUME NEW l \in Lanes, LaneStep(l)
      PROVE  NeverOrphaned'
  BY <1>4, OrphanLaneStep
<1>5. ASSUME NEW l \in Lanes, CrashAfterStalling(l)
      PROVE  NeverOrphaned'
  <2>1. PICK item : queue' = StalledRows(queue, item) /\ batchTx' = batchTx
    BY <1>5 DEF CrashAfterStalling, MarkItemStalled
  <2>2. DOMAIN queue' = DOMAIN queue
    BY <2>1 DEF StalledRows, Update
  <2>3. \A i \in DOMAIN queue : queue'[i].batch_id = queue[i].batch_id
    BY <2>1, Tables, StalledIds
  <2> QED BY <2>1, <2>2, <2>3, OrphanKept
<1>6. ASSUME NEW r \in Requests, NEW d \in DepositFlags, Post(r, d)
      PROVE  NeverOrphaned'
  BY <1>6, OrphanPush DEF Post
<1>7. CASE Unstall
  <2>1. PICK ids : queue' = UnstalledRows(queue, ids) /\ batchTx' = batchTx
    BY <1>7 DEF Unstall, UnstallItem, UnstallItems, UnstallAll
  <2>2. DOMAIN queue' = DOMAIN queue
    BY <2>1 DEF UnstalledRows, Update
  <2>3. \A i \in DOMAIN queue : queue'[i].batch_id \in {queue[i].batch_id, Null}
    BY <2>1, Tables, UnstalledIds
  <2> QED BY <2>1, <2>2, <2>3, OrphanKept
<1>8. CASE ChainStep
  BY <1>1, <1>8 DEF ChainStep, ChainExecute, ChainActionError, ChainRefuse, Settle
<1>9. CASE Boot \/ Crash \/ WaitUntilIdle \/ UNCHANGED vars
  BY <1>1, <1>9 DEF Boot, Crash, WaitUntilIdle, vars
<1>10. ASSUME NEW l \in Lanes, SignFail(l)
       PROVE  NeverOrphaned'
  BY <1>1, <1>10 DEF SignFail
<1> QED BY <1>2, <1>3, <1>4, <1>5, <1>6, <1>7, <1>8, <1>9, <1>10 DEF Next

\* A lane that moves to a state other than backing off.
LEMMA NoBackoffMoved ==
    ASSUME Base, NoBackoff, NEW l \in Lanes, NEW new, new.pc # "backoff",
           lane' = [lane EXCEPT ![l] = new]
    PROVE  NoBackoff'
<1>1. \A m \in Lanes : lane'[m] = IF m = l THEN new ELSE lane[m]
  BY Tables
<1> QED BY <1>1 DEF NoBackoff

LEMMA NoBackoffPolled ==
    ASSUME NEW q, Poll(q)
    PROVE  NoBackoff'
<1>1. \A l \in Lanes : lane'[l].pc \in {"idle", "signing"}
  BY DEF Poll, IdleLane, LaneAt
<1> QED BY <1>1 DEF NoBackoff

LEMMA NoBackoffStep ==
    ASSUME NoRefusals, Base, NoBackoff, [Next]_vars
    PROVE  NoBackoff'
<1>1. CASE UNCHANGED lane
  BY <1>1 DEF NoBackoff
<1>2. CASE LoopStep
  BY <1>1, <1>2, NoBackoffPolled
     DEF LoopStep, StartRecovery, RecoverNext, RecoverStep, Wake, LoopCompleted
<1>3. ASSUME NEW l \in Lanes, SignOk(l)
      PROVE  NoBackoff'
  <2> DEFINE new == LaneAt("sending", lane[l].items, lastBatchId + 1)
  <2>1. new.pc # "backoff"
    BY DEF LaneAt
  <2>2. lane' = [lane EXCEPT ![l] = new]
    BY <1>3 DEF SignOk
  <2> HIDE DEF new
  <2> QED BY <2>1, <2>2, NoBackoffMoved
<1>4. ASSUME NEW l \in Lanes, Return(l)
      PROVE  NoBackoff'
  BY <1>4, IdleFields, NoBackoffMoved DEF Return
<1>5. ASSUME NEW l \in Lanes, LaneStep(l)
      PROVE  NoBackoff'
  <2>1. ~ Backoff(l)
    <3>1. lane[l].pc = "sending" => chain[lane[l].batch] \in Transaction
      BY DEF Base, TypeOK, LaneTypeOK, ChainTypeOK
    <3>2. lane[l].pc = "sending" => chain[lane[l].batch].state \in {"sent", "executed"} \cup Faults
      BY <3>1 DEF Transaction, Outcomes
    <3> QED BY <3>2 DEF Backoff, Lane, NoRefusals
  <2> QED BY <1>4, <1>5, <2>1
          DEF LaneStep, RespondSuccess, RespondActionError, RespondIndexOutOfRange,
              RespondInvalidTx, RespondUnknownFailure, NetworkError, BackoffDone
<1>6. CASE LoseMemory
  <2>1. \A l \in Lanes : lane'[l].pc = "idle"
    BY <1>6, IdleFields DEF LoseMemory
  <2> QED BY <2>1 DEF NoBackoff
<1>7. CASE ChainStep
  BY <1>1, <1>7 DEF ChainStep, ChainExecute, ChainActionError, ChainRefuse, Settle
<1>8. CASE Boot \/ WaitUntilIdle \/ Unstall \/ UNCHANGED vars
  BY <1>1, <1>8 DEF Boot, WaitUntilIdle, Unstall, vars, execVars
<1>9. ASSUME NEW r \in Requests, NEW d \in DepositFlags, Post(r, d)
      PROVE  NoBackoff'
  BY <1>1, <1>9 DEF Post, execVars
<1> QED BY <1>2, <1>3, <1>4, <1>5, <1>6, <1>7, <1>8, <1>9
        DEF Next, SignFail, Crash, CrashAfterStalling

\* Unless the node refuses a transaction for the rate limit or the nonce, no row
\* ever names a batch that is gone: recoverFailedBatch, recover, the unstall calls
\* and crashes at any point keep `queue` and `batch_transactions` consistent, for
\* every number of keys, crashes and unstalls.  BugOrphan shows the assumption is
\* needed.
THEOREM NoOrphans ==
    ASSUME NoRefusals
    PROVE  Spec => []NeverOrphaned
<1>1. ASSUMED
  BY QueueAssumption, ExecutorAssumption DEF ASSUMED
<1>2. Init => OrphanInv
  <2> SUFFICES ASSUME Init PROVE OrphanInv
    OBVIOUS
  <2>1. Base
    BY <1>1, BaseInit
  <2>2. NeverOrphaned
    BY DEF Init, QueueInit, NeverOrphaned
  <2>3. NoBackoff
    BY IdleFields DEF Init, NoBackoff
  <2> QED BY <2>1, <2>2, <2>3 DEF OrphanInv
<1>3. OrphanInv /\ [Next]_vars => OrphanInv'
  BY <1>1, BaseStep, OrphanStep, NoBackoffStep DEF OrphanInv
<1>4. OrphanInv => NeverOrphaned
  BY DEF OrphanInv
<1> QED BY <1>2, <1>3, <1>4, PTL DEF Spec
=============================================================================
