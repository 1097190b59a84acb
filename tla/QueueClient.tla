---------------------------- MODULE QueueClient ----------------------------
(***************************************************************************)
(* TransferQueue under the most general client: any sequence of calls that *)
(* keeps to the protocol of the executor and of the HTTP handlers.         *)
(*   - a batch is created of rows that are in no batch (executor.peek),    *)
(*     stalled ones included: a peeked row may be stalled meanwhile;       *)
(*   - only a batch that is still processing succeeds or is recovered;     *)
(*   - an operator may unstall rows, and the service may start again       *)
(*     (recover), at any time.                                             *)
(* What holds here holds of the tables in every program built on the queue.*)
(***************************************************************************)
EXTENDS TransferQueue

CONSTANT MaxBatches     \* bound: batches ever created in a behaviour

ASSUME ClientAssumption == MaxBatches \in Nat

Unbatched == {i \in DOMAIN queue : queue[i].batch_id = Null}

Create ==
    /\ lastBatchId < MaxBatches
    /\ \E ids \in SUBSET Unbatched : ids # {} /\ CreateSignedTransaction(ids)

PushAny == \E r \in Requests, d \in DepositFlags : Push(r, d)

Succeed == \E b \in PendingBatchTransactions : MarkBatchSuccess(b)

RecoverBatch ==
    \E b \in PendingBatchTransactions, message, without \in BOOLEAN :
        RecoverFailedBatch(b, message, without)

Stall == \E i \in DOMAIN queue : MarkItemStalled(i)

Unstall == \/ \E i \in DOMAIN queue : UnstallItem(i)
           \/ \E ids \in SUBSET DOMAIN queue : UnstallItems(ids)
           \/ UnstallAll

Next == PushAny \/ Create \/ Succeed \/ RecoverBatch \/ Stall \/ Unstall \/ Recover

Spec == QueueInit /\ [][Next]_queueVars

-----------------------------------------------------------------------------

\* A row that is in a batch is never merged into: what a created batch pays is
\* what its rows say until they leave it ("while in pending state", README).
BatchedAmountsFrozen ==
    [][\A i \in DOMAIN queue :
           queue[i].batch_id # Null => queue'[i].amount = queue[i].amount]_queueVars

\* A new batch adopts no row it was not given.  The rows that a recovery without
\* retry count leaves behind still carry the id of a deleted batch; AUTOINCREMENT
\* keeps that id from ever naming another batch.
BatchesStartFresh ==
    [][\A b \in DOMAIN batchTx' \ DOMAIN batchTx :
           \A i \in DOMAIN queue :
               queue'[i].batch_id = b => queue[i].batch_id = Null]_queueVars
=============================================================================
