--------------------------- MODULE TransferQueue ---------------------------
(***************************************************************************)
(* The persistent queue of src/src/queue/index.ts: the two SQLite tables   *)
(* `queue` and `batch_transactions`, and every operation of class Queue    *)
(* that changes them.  Each operation is one synchronous SQLite            *)
(* transaction on a single JavaScript thread, hence one atomic action.     *)
(*                                                                         *)
(* What the code keeps as a decimal string, the amount of a row, is here   *)
(* the SET of requests that were added up in it: two rows pay the same     *)
(* money exactly when their sets meet.  Timestamps, memos and transaction  *)
(* hashes are left out; an error message is present or absent.             *)
(*                                                                         *)
(* The updates of rows are operators on the value of the table (..Rows),   *)
(* so that a step of the executor that calls two queue operations without  *)
(* an await in between can apply them one after the other.                 *)
(***************************************************************************)
EXTENDS Naturals, FiniteSets

CONSTANTS
    Requests,               \* the transfer requests clients may post
    Accounts,               \* receiver accounts
    Receiver,               \* the account each request pays
    DepositFlags,           \* values of has_storage_deposit a push may carry
    MergeExistingAccounts,  \* QueueOptions.mergeExistingAccounts
    MaxRetries              \* ExecutorOptions.maxRetries, passed to the queue

ASSUME QueueAssumption ==
    /\ Receiver \in [Requests -> Accounts]
    /\ DepositFlags \subseteq BOOLEAN
    /\ MergeExistingAccounts \in BOOLEAN
    /\ MaxRetries \in Nat

VARIABLES
    queue,        \* table `queue`: from row id to row; rows are never deleted
    lastItemId,   \* its AUTOINCREMENT counter
    batchTx,      \* table `batch_transactions`: from id to status
    lastBatchId,  \* its AUTOINCREMENT counter; ids of deleted rows stay used
    ticket        \* history: the transfer id each accepted request was given

queueVars == <<queue, lastItemId, batchTx, lastBatchId, ticket>>

Null == 0         \* SQL NULL, and no ticket: AUTOINCREMENT ids start at 1

Row == [receiver_account_id : Accounts,
        amount              : SUBSET Requests,
        has_storage_deposit : BOOLEAN,
        retry_count         : Nat,
        error_message       : BOOLEAN,
        batch_id            : Nat,
        is_stalled          : BOOLEAN]

\* A batch is written with signed_tx = "" and loses it (NULL) when it
\* succeeds, so the status also tells whether signed_tx is NULL.
BatchStatus == {"processing", "success"}

-----------------------------------------------------------------------------
(* Queries *)

Members(q, b) == {i \in DOMAIN q : q[i].batch_id = b}

\* Mutant: peek forgets to leave stalled rows out.
PendingWithStalled(q) == {i \in DOMAIN q : q[i].batch_id = Null}

Pending(q) == {i \in DOMAIN q : q[i].batch_id = Null /\ ~ q[i].is_stalled}

Stalled(q) == {i \in DOMAIN q : q[i].is_stalled}

\* Mutant: the lookup of push forgets "batch_id IS NULL".
MergeableInBatches(a) ==
    IF MergeExistingAccounts
    THEN {i \in DOMAIN queue : /\ queue[i].receiver_account_id = a
                               /\ ~ queue[i].is_stalled}
    ELSE {}

\* The rows the SELECT of push may return; `.get` takes any one of them.
Mergeable(a) ==
    IF MergeExistingAccounts
    THEN {i \in Pending(queue) : queue[i].receiver_account_id = a}
    ELSE {}

\* Mutant: batches that have succeeded are recovered as well.
AllBatchTransactions == DOMAIN batchTx

PendingBatchTransactions == {b \in DOMAIN batchTx : batchTx[b] = "processing"}

\* Mutant: the WHERE clause does not look at the status of the batch.
HasUnfinishedOrDone(q) == DOMAIN q # {}

\* The count includes stalled rows, whose batch_id is NULL as well.
HasPendingOrProcessing(q) ==
    \E i \in DOMAIN q :
        \/ q[i].batch_id = Null
        \/ /\ q[i].batch_id \in DOMAIN batchTx
           /\ batchTx[q[i].batch_id] = "processing"

\* What GET /transfer/{id} and GET /transfers answer for a row.
StatusOf(i) ==
    CASE queue[i].is_stalled -> "stalled"
      [] ~ queue[i].is_stalled /\ queue[i].batch_id = Null -> "pending"
      [] ~ queue[i].is_stalled /\ queue[i].batch_id \in DOMAIN batchTx ->
             batchTx[queue[i].batch_id]
      [] OTHER -> "unknown"

-----------------------------------------------------------------------------
(* Updates of the rows, as the UPDATE statements make them *)

\* UPDATE queue SET ... WHERE id \in S
Update(q, S, Set(_)) == [i \in DOMAIN q |-> IF i \in S THEN Set(q[i]) ELSE q[i]]

\* Mutant: a merge keeps "has a deposit" of the earlier pushes.
MergedRowsOnceDeposited(q, r, i, deposit) ==
    Update(q, {i}, LAMBDA row : [row EXCEPT !.amount = @ \cup {r},
                                            !.has_storage_deposit = @ \/ deposit])

\* The merge branch of push: amount, memo and has_storage_deposit are replaced.
MergedRows(q, r, i, deposit) ==
    Update(q, {i}, LAMBDA row : [row EXCEPT !.amount = @ \cup {r},
                                            !.has_storage_deposit = deposit])

AssignedRows(q, b, ids) ==
    Update(q, ids, LAMBDA row : [row EXCEPT !.batch_id = b])

DepositedRows(q, b) ==
    Update(q, Members(q, b), LAMBDA row : [row EXCEPT !.has_storage_deposit = TRUE])

StalledRows(q, i) ==
    Update(q, {i}, LAMBDA row : [row EXCEPT !.is_stalled = TRUE,
                                            !.error_message = TRUE])

\* Mutant: "is_stalled = 1" is left out of the WHERE clause.
UnstalledAnyRows(q, ids) ==
    Update(q, ids, LAMBDA row : [row EXCEPT !.is_stalled = FALSE,
                                            !.batch_id = Null])

UnstalledRows(q, ids) ==
    Update(q, ids \cap Stalled(q),
           LAMBDA row : [row EXCEPT !.is_stalled = FALSE, !.batch_id = Null])

\* recoverFailedBatch, statement by statement.  `message` says whether an error
\* message is given.  The last UPDATE is not limited to the batch: it stalls
\* every unbatched row whose retry count is over the limit.
ToldRows(q, b) ==
    Update(q, Members(q, b), LAMBDA row : [row EXCEPT !.error_message = TRUE])

\* Mutant: the retry is not counted.
RetriedUncountedRows(q, b) ==
    Update(q, Members(q, b), LAMBDA row : [row EXCEPT !.batch_id = Null])

\* Mutant: rows that wait for a batch are counted as retried, too.
RetriedAllRows(q, b) ==
    Update(q, Members(q, b) \cup Pending(q),
           LAMBDA row : [row EXCEPT !.batch_id = Null, !.retry_count = @ + 1])

RetriedRows(q, b) ==
    Update(q, Members(q, b), LAMBDA row : [row EXCEPT !.batch_id = Null,
                                                      !.retry_count = @ + 1])

Spent(q) == {i \in DOMAIN q : q[i].batch_id = Null /\ q[i].retry_count > MaxRetries}

CappedRows(q) == Update(q, Spent(q), LAMBDA row : [row EXCEPT !.is_stalled = TRUE])

RecoveredRows(q, b, message, withoutRetryCount) ==
    LET told == IF message THEN ToldRows(q, b) ELSE q
    IN  IF withoutRetryCount THEN told ELSE CappedRows(RetriedRows(told, b))

Without(bt, b) == [c \in DOMAIN bt \ {b} |-> bt[c]]

-----------------------------------------------------------------------------
(* Operations *)

NewRow(r, deposit) ==
    [receiver_account_id |-> Receiver[r], amount |-> {r},
     has_storage_deposit |-> deposit, retry_count |-> 0,
     error_message |-> FALSE, batch_id |-> Null, is_stalled |-> FALSE]

\* Mutant: the merge branch answers last_insert_rowid() too.
MergeTicketOfLast(r, i, deposit) ==
    /\ queue' = MergedRows(queue, r, i, deposit)
    /\ ticket' = [ticket EXCEPT ![r] = lastItemId]
    /\ UNCHANGED <<lastItemId, batchTx, lastBatchId>>

Merge(r, i, deposit) ==
    /\ queue' = MergedRows(queue, r, i, deposit)
    /\ ticket' = [ticket EXCEPT ![r] = i]
    /\ UNCHANGED <<lastItemId, batchTx, lastBatchId>>

Insert(r, deposit) ==
    LET id == lastItemId + 1
    IN  /\ queue' = [i \in 1..id |-> IF i = id THEN NewRow(r, deposit) ELSE queue[i]]
        /\ lastItemId' = id
        /\ ticket' = [ticket EXCEPT ![r] = id]
        /\ UNCHANGED <<batchTx, lastBatchId>>

\* A request is posted once; posting it again would be another request.
Push(r, deposit) ==
    /\ ticket[r] = Null
    /\ \/ \E i \in Mergeable(Receiver[r]) : Merge(r, i, deposit)
       \/ Mergeable(Receiver[r]) = {} /\ Insert(r, deposit)

\* Mutant: last_insert_rowid() is read before the INSERT.
CreateSignedTransactionStaleId(ids) ==
    LET b == lastBatchId
    IN  /\ batchTx' = [c \in DOMAIN batchTx \cup {b} |->
                          IF c = b THEN "processing" ELSE batchTx[c]]
        /\ lastBatchId' = lastBatchId + 1
        /\ queue' = AssignedRows(queue, b, ids)
        /\ UNCHANGED <<lastItemId, ticket>>

\* Mutant: PRIMARY KEY without AUTOINCREMENT, which takes the largest id in use
\* plus one, so that the id of a deleted batch comes back.
ReusingCreateSignedTransaction(ids) ==
    LET b == CHOOSE n \in 1..(lastBatchId + 1) :
                /\ \A c \in DOMAIN batchTx : c < n
                /\ \A m \in 1..(n - 1) : \E c \in DOMAIN batchTx : m <= c
    IN  /\ batchTx' = [c \in DOMAIN batchTx \cup {b} |->
                          IF c = b THEN "processing" ELSE batchTx[c]]
        /\ lastBatchId' = lastBatchId + 1
        /\ queue' = AssignedRows(queue, b, ids)
        /\ UNCHANGED <<lastItemId, ticket>>

CreateSignedTransaction(ids) ==
    LET b == lastBatchId + 1
    IN  /\ batchTx' = [c \in DOMAIN batchTx \cup {b} |->
                          IF c = b THEN "processing" ELSE batchTx[c]]
        /\ lastBatchId' = b
        /\ queue' = AssignedRows(queue, b, ids)
        /\ UNCHANGED <<lastItemId, ticket>>

MarkBatchSuccess(b) ==
    /\ batchTx' = [c \in DOMAIN batchTx |-> IF c = b THEN "success" ELSE batchTx[c]]
    /\ queue' = DepositedRows(queue, b)
    /\ UNCHANGED <<lastItemId, lastBatchId, ticket>>

MarkItemStalled(i) ==
    /\ queue' = StalledRows(queue, i)
    /\ UNCHANGED <<lastItemId, batchTx, lastBatchId, ticket>>

\* Mutant: the retry count of the batch is not looked at, and its rows keep
\* their batch_id, as when withoutRetryCount is always true.
RecoverKeepingBatch(b, message, withoutRetryCount) ==
    /\ batchTx' = Without(batchTx, b)
    /\ queue' = RecoveredRows(queue, b, message, TRUE)
    /\ UNCHANGED <<lastItemId, lastBatchId, ticket>>

RecoverFailedBatch(b, message, withoutRetryCount) ==
    /\ batchTx' = Without(batchTx, b)
    /\ queue' = RecoveredRows(queue, b, message, withoutRetryCount)
    /\ UNCHANGED <<lastItemId, lastBatchId, ticket>>

UnstallItem(i) ==
    /\ i \in Stalled(queue)
    /\ queue' = UnstalledRows(queue, {i})
    /\ UNCHANGED <<lastItemId, batchTx, lastBatchId, ticket>>

UnstallItems(ids) ==
    /\ ids # {}
    /\ queue' = UnstalledRows(queue, ids)
    /\ UNCHANGED <<lastItemId, batchTx, lastBatchId, ticket>>

UnstallAll ==
    /\ queue' = UnstalledRows(queue, DOMAIN queue)
    /\ UNCHANGED <<lastItemId, batchTx, lastBatchId, ticket>>

\* recover: the rows of processing batches, then the batches that have not
\* succeeded.
ResetRows(q, bt) ==
    Update(q, {i \in DOMAIN q : /\ q[i].batch_id \in DOMAIN bt
                                /\ bt[q[i].batch_id] = "processing"},
           LAMBDA row : [row EXCEPT !.batch_id = Null])

SuccessfulOnly(bt) == [b \in {c \in DOMAIN bt : bt[c] = "success"} |-> bt[b]]

Recover ==
    /\ queue' = ResetRows(queue, batchTx)
    /\ batchTx' = SuccessfulOnly(batchTx)
    /\ UNCHANGED <<lastItemId, lastBatchId, ticket>>

-----------------------------------------------------------------------------
(* Properties of the tables, whoever calls the operations *)

QueueInit ==
    /\ queue = [i \in {} |-> {}]
    /\ lastItemId = 0
    /\ batchTx = [b \in {} |-> {}]
    /\ lastBatchId = 0
    /\ ticket = [r \in Requests |-> Null]

\* The tables hold what their schema allows, and no id is over its counter.
QueueTypeOK ==
    /\ lastItemId \in Nat
    /\ lastBatchId \in Nat
    /\ queue \in [1..lastItemId -> Row]
    /\ \A i \in 1..lastItemId : queue[i].batch_id \in 0..lastBatchId
    /\ DOMAIN batchTx \subseteq 1..lastBatchId
    /\ batchTx \in [DOMAIN batchTx -> BatchStatus]
    /\ ticket \in [Requests -> 0..lastItemId]

\* "Every token accounted for", on the side of the queue: an accepted request
\* is counted in exactly one row, the row whose id the client was given to poll,
\* and that row pays the receiver of the request (push, merge branch included).
TicketHolds ==
    \A r \in Requests :
        /\ \A i \in DOMAIN queue : r \in queue[i].amount <=> ticket[r] = i
        /\ ticket[r] # Null =>
               queue[ticket[r]].receiver_account_id = Receiver[r]
=============================================================================
