------------------------- MODULE QueueClientProofs -------------------------
(***************************************************************************)
(* The invariants and the step properties of the tables, for every client  *)
(* of the queue, every number of requests and every bound on batches.      *)
(***************************************************************************)
EXTENDS QueueClient, TransferQueueProofs

IInv == QueueTypeOK /\ TicketHolds

\* The unstall calls, seen as updates of some set of rows.
LEMMA UnstallIsUpdate ==
    ASSUME Unstall
    PROVE  \E ids : /\ queue' = UnstalledRows(queue, ids)
                    /\ UNCHANGED <<lastItemId, batchTx, lastBatchId, ticket>>
  BY DEF Unstall, UnstallItem, UnstallItems, UnstallAll

LEMMA InvStep ==
    ASSUME QueueAssumption, IInv, [Next]_queueVars
    PROVE  IInv'
<1> USE DEF IInv
<1>1. CASE PushAny
  <2>1. PICK r \in Requests, d \in DepositFlags : Push(r, d)
    BY <1>1 DEF PushAny
  <2>2. d \in BOOLEAN
    BY DEF QueueAssumption
  <2> QED BY <2>1, <2>2, PushQueue
<1>2. CASE Create
  BY <1>2, CreateQueue DEF Create
<1>3. CASE Succeed
  BY <1>3, MarkSuccessQueue DEF Succeed
<1>4. CASE RecoverBatch
  BY <1>4, RecoverBatchQueue DEF RecoverBatch
<1>5. CASE Stall
  BY <1>5, StallQueue DEF Stall
<1>6. CASE Unstall
  BY <1>6, UnstallIsUpdate, UnstallQueue
<1>7. CASE Recover
  BY <1>7, RecoverQueue
<1>8. CASE UNCHANGED queueVars
  BY <1>8, StutterQueue
<1> QED BY <1>1, <1>2, <1>3, <1>4, <1>5, <1>6, <1>7, <1>8 DEF Next

\* Type correctness of both tables and of the tickets, and the bookkeeping of
\* push and of every recovery: an accepted request stays in the one row its
\* client was told, and in no other.
THEOREM QueueInvariant == Spec => [](QueueTypeOK /\ TicketHolds)
<1>1. QueueInit => IInv
  BY QueueAssumption, InitQueue DEF IInv
<1>2. IInv /\ [Next]_queueVars => IInv'
  BY QueueAssumption, InvStep
<1> QED BY <1>1, <1>2, PTL DEF Spec, IInv

-----------------------------------------------------------------------------

\* Only push changes an amount, and only of a row that is in no batch.
LEMMA FrozenStep ==
    ASSUME QueueAssumption, IInv, Next, NEW i \in DOMAIN queue, queue[i].batch_id # Null
    PROVE  queue'[i].amount = queue[i].amount
<1> USE DEF IInv
<1>1. ASSUME SameMoney(queue, queue')
      PROVE  queue'[i].amount = queue[i].amount
  BY <1>1 DEF SameMoney
<1>2. queue \in Rows(lastItemId, lastBatchId) /\ lastItemId \in Nat /\ lastBatchId \in Nat
  BY QueueIsRows DEF QueueTypeOK
<1>3. CASE PushAny
  <2>1. PICK r \in Requests, d \in DepositFlags : Push(r, d)
    BY <1>3 DEF PushAny
  <2>2. ASSUME NEW j \in Mergeable(Receiver[r]), Merge(r, j, d)
        PROVE  queue'[i].amount = queue[i].amount
    <3>1. i # j
      BY <2>2 DEF Mergeable, Pending
    <3> QED BY <2>2, <3>1 DEF Merge, MergedRows, Update
  <2>3. ASSUME Insert(r, d)
        PROVE  queue'[i].amount = queue[i].amount
    BY <1>2, <2>3 DEF Insert, QueueTypeOK
  <2> QED BY <2>1, <2>2, <2>3 DEF Push
<1>4. CASE Create
  BY <1>1, <1>2, <1>4, AssignedLemma DEF Create, CreateSignedTransaction
<1>5. CASE Succeed
  BY <1>1, <1>2, <1>5, DepositedLemma DEF Succeed, MarkBatchSuccess
<1>6. CASE RecoverBatch
  BY <1>1, <1>2, <1>6, RecoveredLemma DEF RecoverBatch, RecoverFailedBatch
<1>7. CASE Stall
  BY <1>1, <1>2, <1>7, StalledLemma DEF Stall, MarkItemStalled
<1>8. CASE Unstall
  BY <1>1, <1>2, <1>8, UnstallIsUpdate, UnstalledLemma
<1>9. CASE Recover
  BY <1>1, <1>2, <1>9, ResetLemma DEF Recover
<1> QED BY <1>3, <1>4, <1>5, <1>6, <1>7, <1>8, <1>9 DEF Next

\* What a created batch pays never changes under it.
THEOREM FrozenAmounts == Spec => BatchedAmountsFrozen
<1>1. IInv /\ [Next]_queueVars
        => [\A i \in DOMAIN queue :
               queue[i].batch_id # Null => queue'[i].amount = queue[i].amount]_queueVars
  BY QueueAssumption, FrozenStep
<1> QED BY <1>1, QueueInvariant, PTL DEF BatchedAmountsFrozen, Spec, IInv

\* The id of a new batch was in no row before: every row that a failed recovery
\* left in a deleted batch has an id up to the AUTOINCREMENT counter, and the
\* new batch takes the next one.
LEMMA FreshStep ==
    ASSUME IInv, Next, NEW b \in DOMAIN batchTx' \ DOMAIN batchTx,
           NEW i \in DOMAIN queue, queue'[i].batch_id = b
    PROVE  queue[i].batch_id = Null
<1>1. Create
  BY WithoutLemma
     DEF IInv, Next, PushAny, Push, Merge, Insert, Succeed, MarkBatchSuccess, RecoverBatch,
         RecoverFailedBatch, Stall, MarkItemStalled, Unstall, UnstallItem,
         UnstallItems, UnstallAll, Recover, SuccessfulOnly
<1>2. PICK ids \in SUBSET Unbatched : CreateSignedTransaction(ids)
  BY <1>1 DEF Create
<1>3. b = lastBatchId + 1
  BY <1>2 DEF CreateSignedTransaction
<1>4. queue[i].batch_id \in 0..lastBatchId /\ lastBatchId \in Nat
  BY DEF IInv, QueueTypeOK
<1>5. queue[i].batch_id # b
  BY <1>3, <1>4
<1>6. i \in ids
  BY <1>2, <1>5 DEF CreateSignedTransaction, AssignedRows, Update
<1> QED BY <1>6 DEF Unbatched

\* A batch consists of the rows it was created with, whatever was deleted
\* before it.
THEOREM FreshBatches == Spec => BatchesStartFresh
<1>1. IInv /\ [Next]_queueVars
        => [\A b \in DOMAIN batchTx' \ DOMAIN batchTx :
               \A i \in DOMAIN queue :
                   queue'[i].batch_id = b => queue[i].batch_id = Null]_queueVars
  BY FreshStep
<1> QED BY <1>1, QueueInvariant, PTL DEF BatchesStartFresh, Spec, IInv
=============================================================================
