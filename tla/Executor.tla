------------------------------ MODULE Executor ------------------------------
(***************************************************************************)
(* The executor of src/src/executor/index.ts on top of the queue, with the *)
(* chain it pays on, the operators who unstall transfers and the crashes   *)
(* of the service.                                                         *)
(*                                                                         *)
(* There is one JavaScript thread: the code between two awaits is a single *)
(* step, and everything else (HTTP handlers, the other lanes of the same   *)
(* loop, the chain, a crash) happens between the steps.  A lane is one     *)
(* processBatch call of the current loop iteration; there are as many as   *)
(* signing keys.  Its `items` are the QueueItem copies that peek returned: *)
(* the transaction is built from the copies, never from the rows.          *)
(*                                                                         *)
(* The sleep(1000) after an outcome touches nothing, so it is part of the  *)
(* unbounded delay before LoopCompleted.                                   *)
(***************************************************************************)
EXTENDS TransferQueue, Integers

CONSTANTS
    NumKeys,          \* signing keys: maxConcurrency of the constructor
    BatchSize,        \* ExecutorOptions.batchSize
    MinQueue,         \* ExecutorOptions.minQueueToProcess
    MaxActions,       \* MAX_ACTIONS of processBatch, 100 in the code
    Faults,           \* what may go wrong, a subset of FaultKinds
    MaxCrashes,       \* bound: crashes of the service
    MaxUnstalls       \* bound: unstall calls by operators

FaultKinds ==
    {"signFail",       \* signTransaction throws
     "network",        \* sendSignedTransaction throws, whatever the chain did
     "rateLimit",      \* the node refuses the transaction: rate limit
     "invalidNonce",   \* the node refuses the transaction: InvalidNonce
     "actionError",    \* Failure.ActionError with an index
     "invalidTx",      \* Failure.InvalidTxError, or ActionError without index
     "unknownFailure"} \* a Failure of neither kind

ASSUME ExecutorAssumption ==
    /\ NumKeys \in Nat \ {0}
    /\ BatchSize \in 1..100
    /\ MinQueue \in Nat
    /\ MaxActions \in Nat /\ MaxActions >= 2
    /\ Faults \subseteq FaultKinds
    /\ MaxCrashes \in Nat
    /\ MaxUnstalls \in Nat

VARIABLES
    phase,     \* where start() and run() are
    todo,      \* batches recoverProcessingTransactions has still to handle
    lane,      \* the processBatch call of each key
    chain,     \* history: the transactions handed to the network, by batch id
    waiting,   \* waitUntilIdle() has been called and is not resolved
    crashes,
    unstalls

execVars == <<phase, todo, lane, chain, waiting, crashes, unstalls>>
vars == <<queueVars, execVars>>

Phases == {"down", "starting", "recovering", "batching", "sleeping"}
Lanes == 1..NumKeys
LanePcs == {"idle", "signing", "sending", "backoff"}
NoIndex == -1         \* the failure names no action

EmptyFunction == [x \in {} |-> x]
LaneAt(pc, items, batch) == [pc |-> pc, items |-> items, batch |-> batch]
IdleLane == LaneAt("idle", EmptyFunction, Null)

-----------------------------------------------------------------------------
(* The arithmetic of a batch.  Items and actions are numbered from 0. *)

Rank(ids, i) == Cardinality({j \in ids : j < i})

\* peek(n): ORDER BY id ASC LIMIT n
Peek(q, n) == {i \in Pending(q) : Rank(Pending(q), i) < n}

\* Mutant: the slice starts one item early.
SliceOverlapping(ids, l) ==
    {i \in ids : Rank(ids, i) \div BatchSize = l - 1
                 \/ (Rank(ids, i) + 1) \div BatchSize = l - 1}

\* allItems.slice((l-1) * batchSize, l * batchSize)
Slice(ids, l) == {i \in ids : Rank(ids, i) \div BatchSize = l - 1}

ActionsNeeded(item) == IF item.has_storage_deposit THEN 1 ELSE 2

\* The actions of these items, and of the items up to and including i.
ActionsOf(items, ids) ==
    Cardinality(ids) + Cardinality({j \in ids : ~ items[j].has_storage_deposit})

ActionsThrough(items, i) == ActionsOf(items, {j \in DOMAIN items : j <= i})

\* The loop of processBatch that adds up actions until an item does not fit: where
\* it begins, and its turn over item i.
LoopStart == [actions |-> 0, taken |-> {}, broken |-> FALSE]

LoopTurn(items, before, i) ==
    LET after == before.actions + ActionsNeeded(items[i])
    IN  IF before.broken \/ after > MaxActions
        THEN [actions |-> before.actions, taken |-> before.taken, broken |-> TRUE]
        ELSE [actions |-> after, taken |-> before.taken \cup {i}, broken |-> FALSE]

\* What it takes: the longest prefix of the batch that fits.
ItemsToProcess(items) ==
    {i \in DOMAIN items : ActionsThrough(items, i) <= MaxActions}

NumActions(items) == ActionsOf(items, ItemsToProcess(items))

\* Mutant: actions are taken to be numbered from 1.
ItemAtFromOne(items, k) ==
    CHOOSE i \in DOMAIN items :
        Rank(DOMAIN items, i) = IF k = 0 THEN Cardinality(DOMAIN items) - 1 ELSE k - 1

\* items[k] of the JavaScript array.
ItemAt(items, k) == CHOOSE i \in DOMAIN items : Rank(DOMAIN items, i) = k

\* The item whose actions include action k.
Owner(items, k) ==
    CHOOSE i \in ItemsToProcess(items) :
        /\ ActionsThrough(items, i) - ActionsNeeded(items[i]) <= k
        /\ k < ActionsThrough(items, i)

Paid(items) == UNION {items[i].amount : i \in ItemsToProcess(items)}

-----------------------------------------------------------------------------
(* The loop *)

\* The end of an iteration: loopCompleted, then the waiters if the queue is idle.
EndIteration(q) ==
    /\ phase' = "sleeping"
    /\ waiting' = (waiting /\ HasPendingOrProcessing(q))

\* The head of an iteration, up to the first await of every lane it starts.  An
\* iteration that starts none runs through to its sleep.
Poll(q) ==
    LET peeked  == Peek(q, NumKeys * BatchSize)
        size(l) == Cardinality(Slice(peeked, l))
        started == {l \in Lanes : /\ Slice(peeked, l) # {}
                                  /\ \A m \in 1..l : size(m) >= MinQueue}
        copies(l) == [i \in Slice(peeked, l) |-> q[i]]
    IN  /\ lane' = [l \in Lanes |->
                       IF l \in started
                       THEN LaneAt("signing", copies(l), Null)
                       ELSE IdleLane]
        /\ IF started = {}
           THEN EndIteration(q)
           ELSE phase' = "batching" /\ UNCHANGED waiting

Wake ==
    /\ phase = "sleeping"
    /\ Poll(queue)
    /\ UNCHANGED <<queueVars, todo, chain, crashes, unstalls>>

\* Promise.allSettled: every lane is done.
LoopCompleted ==
    /\ phase = "batching"
    /\ \A l \in Lanes : lane[l].pc = "idle"
    /\ EndIteration(queue)
    /\ UNCHANGED <<queueVars, todo, lane, chain, crashes, unstalls>>


-----------------------------------------------------------------------------
(* A lane: processBatch *)

Lane(l, pc) == l \in Lanes /\ lane[l].pc = pc

\* processBatch returns: the promise of the lane is settled.
Return(l) ==
    /\ lane' = [lane EXCEPT ![l] = IdleLane]
    /\ UNCHANGED <<phase, todo, chain, waiting, crashes, unstalls>>

\* Mutant: every peeked item is put in the batch, also those that did not fit.
SignOkUnfiltered(l) ==
    /\ Lane(l, "signing")
    /\ LET items == lane[l].items
           b     == lastBatchId + 1
       IN  /\ CreateSignedTransaction(DOMAIN items)
           /\ lane' = [lane EXCEPT ![l] = LaneAt("sending", items, b)]
           /\ chain' = [c \in DOMAIN chain \cup {b} |->
                           IF c = b
                           THEN [pays |-> Paid(items), actions |-> NumActions(items),
                                 state |-> "sent", at |-> NoIndex]
                           ELSE chain[c]]
    /\ UNCHANGED <<phase, todo, waiting, crashes, unstalls>>

\* Mutant: the transaction is built from all peeked items.
SignOkUncut(l) ==
    /\ Lane(l, "signing")
    /\ LET items == lane[l].items
           b     == lastBatchId + 1
       IN  /\ CreateSignedTransaction(ItemsToProcess(items))
           /\ lane' = [lane EXCEPT ![l] = LaneAt("sending", items, b)]
           /\ chain' = [c \in DOMAIN chain \cup {b} |->
                           IF c = b
                           THEN [pays |-> UNION {items[i].amount : i \in DOMAIN items},
                                 actions |-> ActionsOf(items, DOMAIN items),
                                 state |-> "sent", at |-> NoIndex]
                           ELSE chain[c]]
    /\ UNCHANGED <<phase, todo, waiting, crashes, unstalls>>

\* signTransaction resolves; the batch is written and the transaction handed to
\* the network.  Nothing looks at the rows again since they were peeked.
SignOk(l) ==
    /\ Lane(l, "signing")
    /\ LET items == lane[l].items
           b     == lastBatchId + 1
       IN  /\ CreateSignedTransaction(ItemsToProcess(items))
           /\ lane' = [lane EXCEPT ![l] = LaneAt("sending", items, b)]
           /\ chain' = [c \in DOMAIN chain \cup {b} |->
                           IF c = b
                           THEN [pays |-> Paid(items), actions |-> NumActions(items),
                                 state |-> "sent", at |-> NoIndex]
                           ELSE chain[c]]
    /\ UNCHANGED <<phase, todo, waiting, crashes, unstalls>>

\* signTransaction rejects: batchId is undefined, so nothing is recovered and
\* no retry is counted.
SignFail(l) ==
    /\ "signFail" \in Faults
    /\ Lane(l, "signing")
    /\ Return(l)
    /\ UNCHANGED queueVars

\* The answer of the network to the transaction of lane l is of this kind.
Answered(l, state) == Lane(l, "sending") /\ chain[lane[l].batch].state = state

\* Mutant: a Failure is not told from a success.
RespondUnvalidated(l) ==
    /\ Lane(l, "sending") /\ chain[lane[l].batch].state # "sent"
    /\ MarkBatchSuccess(lane[l].batch)
    /\ Return(l)

RespondSuccess(l) ==
    /\ Answered(l, "executed")
    /\ MarkBatchSuccess(lane[l].batch)
    /\ Return(l)

InRange(l) == chain[lane[l].batch].at < Cardinality(DOMAIN lane[l].items)

\* Mutant: the item is marked and the batch left to somebody else.
RespondActionErrorMarking(l) ==
    /\ Answered(l, "actionError")
    /\ InRange(l)
    /\ MarkItemStalled(ItemAt(lane[l].items, chain[lane[l].batch].at))
    /\ Return(l)

\* ActionError with an index, used as an index into the peeked items.
RespondActionError(l) ==
    /\ Answered(l, "actionError")
    /\ InRange(l)
    /\ LET b    == lane[l].batch
           item == ItemAt(lane[l].items, chain[b].at)
       IN  /\ queue' = RecoveredRows(StalledRows(queue, item), b, FALSE, FALSE)
           /\ batchTx' = Without(batchTx, b)
    /\ Return(l)
    /\ UNCHANGED <<lastItemId, lastBatchId, ticket>>

\* items[actionIndex] is undefined: item.id throws, and the catch block of
\* processBatch recovers the batch with the TypeError as its message.
RespondIndexOutOfRange(l) ==
    /\ Answered(l, "actionError")
    /\ ~ InRange(l)
    /\ RecoverFailedBatch(lane[l].batch, TRUE, FALSE)
    /\ Return(l)

\* InvalidTxError, or ActionError without an index.
RespondInvalidTx(l) ==
    /\ Answered(l, "invalidTx")
    /\ RecoverFailedBatch(lane[l].batch, TRUE, FALSE)
    /\ Return(l)

\* A Failure of another kind is reported and left as it is.
RespondUnknownFailure(l) ==
    /\ Answered(l, "unknownFailure")
    /\ Return(l)
    /\ UNCHANGED queueVars

\* Mutant: the catch block reports the error and does not recover the batch.
NetworkErrorReported(l) ==
    /\ "network" \in Faults
    /\ Lane(l, "sending")
    /\ Return(l)
    /\ UNCHANGED queueVars

\* sendSignedTransaction throws: a timeout, a lost connection.  The transaction
\* may have been executed, may be executed later, or never.  The same catch block
\* is reached when markBatchSuccess throws after the answer.
NetworkError(l) ==
    /\ "network" \in Faults
    /\ Lane(l, "sending")
    /\ RecoverFailedBatch(lane[l].batch, TRUE, FALSE)
    /\ Return(l)

\* A refusal for the rate limit or the nonce: sleep before the recovery ...
Backoff(l) ==
    /\ Lane(l, "sending")
    /\ chain[lane[l].batch].state \in {"rateLimit", "invalidNonce"}
    /\ lane' = [lane EXCEPT ![l] = LaneAt("backoff", @.items, @.batch)]
    /\ UNCHANGED <<queueVars, phase, todo, chain, waiting, crashes, unstalls>>

\* ... which does not count as a retry.
BackoffDone(l) ==
    /\ Lane(l, "backoff")
    /\ RecoverFailedBatch(lane[l].batch, TRUE, TRUE)
    /\ Return(l)

-----------------------------------------------------------------------------
(* The chain (external): it executes a transaction, or refuses it, at any time *)

Settle(b, outcome, index) ==
    /\ b \in DOMAIN chain /\ chain[b].state = "sent"
    /\ chain' = [chain EXCEPT ![b] = [pays |-> @.pays, actions |-> @.actions,
                                      state |-> outcome, at |-> index]]
    /\ UNCHANGED <<queueVars, phase, todo, lane, waiting, crashes, unstalls>>

ChainExecute(b) == Settle(b, "executed", NoIndex)

\* A receipt is atomic: one failing action undoes all of them.
ChainActionError(b) ==
    /\ "actionError" \in Faults
    /\ \E k \in 0..(chain[b].actions - 1) : Settle(b, "actionError", k)

ChainRefuse(b) ==
    \E f \in Faults \cap {"invalidTx", "unknownFailure", "rateLimit", "invalidNonce"} :
        Settle(b, f, NoIndex)

-----------------------------------------------------------------------------
(* start(), crash and restart *)

Boot ==
    /\ phase = "down"
    /\ phase' = "starting"
    /\ UNCHANGED <<queueVars, todo, lane, chain, waiting, crashes, unstalls>>

\* One turn of recoverProcessingTransactions.  Re-broadcasting always throws
\* "Not implemented", so each pending batch is recovered as a failed one; after
\* the last one come recover() and the first iteration of run().
RecoverStep(pending) ==
    \/ \E b \in pending :
          /\ RecoverFailedBatch(b, TRUE, FALSE)
          /\ todo' = pending \ {b}
          /\ phase' = "recovering"
          /\ UNCHANGED <<lane, waiting>>
    \/ /\ pending = {}
       /\ Recover
       /\ todo' = {}
       /\ Poll(ResetRows(queue, batchTx))

\* initializeSigner resolves.
StartRecovery ==
    /\ phase = "starting"
    /\ RecoverStep(PendingBatchTransactions)
    /\ UNCHANGED <<chain, crashes, unstalls>>

\* The sleep after a recovered batch is over.
RecoverNext ==
    /\ phase = "recovering"
    /\ RecoverStep(todo)
    /\ UNCHANGED <<chain, crashes, unstalls>>

\* What a crash takes away; the tables and the chain stay.
LoseMemory ==
    /\ phase # "down" /\ crashes < MaxCrashes
    /\ crashes' = crashes + 1
    /\ phase' = "down"
    /\ todo' = {}
    /\ lane' = [l \in Lanes |-> IdleLane]
    /\ waiting' = FALSE
    /\ UNCHANGED <<chain, unstalls>>

Crash == LoseMemory /\ UNCHANGED queueVars

\* markItemStalled is committed, recoverFailedBatch is not: the only handler that
\* makes two transactions in a row.
CrashAfterStalling(l) ==
    /\ Answered(l, "actionError")
    /\ InRange(l)
    /\ MarkItemStalled(ItemAt(lane[l].items, chain[lane[l].batch].at))
    /\ LoseMemory

-----------------------------------------------------------------------------
(* Clients and operators *)

Post(r, deposit) ==
    /\ phase # "down"
    /\ Push(r, deposit)
    /\ UNCHANGED execVars

Unstall ==
    /\ phase # "down" /\ unstalls < MaxUnstalls
    /\ Stalled(queue) # {}         \* without one no row changes
    /\ \/ \E i \in DOMAIN queue : UnstallItem(i)
       \/ \E ids \in SUBSET Stalled(queue) : UnstallItems(ids)
       \/ UnstallAll
    /\ unstalls' = unstalls + 1
    /\ UNCHANGED <<phase, todo, lane, chain, waiting, crashes>>

\* A call on an idle queue resolves at once.
WaitUntilIdle ==
    /\ phase # "down"
    /\ HasPendingOrProcessing(queue)
    /\ waiting' = TRUE
    /\ UNCHANGED <<queueVars, phase, todo, lane, chain, crashes, unstalls>>

-----------------------------------------------------------------------------

Init ==
    /\ QueueInit
    /\ phase = "down"
    /\ todo = {}
    /\ lane = [l \in Lanes |-> IdleLane]
    /\ chain = EmptyFunction
    /\ waiting = FALSE
    /\ crashes = 0
    /\ unstalls = 0

\* What the code does with an answer or a timer of lane l, the signing left out.
LaneStep(l) ==
    \/ RespondSuccess(l)
    \/ RespondActionError(l)
    \/ RespondIndexOutOfRange(l)
    \/ RespondInvalidTx(l)
    \/ RespondUnknownFailure(l)
    \/ NetworkError(l)
    \/ Backoff(l)
    \/ BackoffDone(l)

LoopStep == StartRecovery \/ RecoverNext \/ Wake \/ LoopCompleted

ChainStep == \E b \in DOMAIN chain :
                ChainExecute(b) \/ ChainActionError(b) \/ ChainRefuse(b)

Next ==
    \/ Boot
    \/ LoopStep
    \/ \E l \in Lanes : SignOk(l) \/ SignFail(l) \/ LaneStep(l) \/ CrashAfterStalling(l)
    \/ ChainStep
    \/ Crash
    \/ \E r \in Requests, d \in DepositFlags : Post(r, d)
    \/ Unstall
    \/ WaitUntilIdle

Spec == Init /\ [][Next]_vars

\* Timers fire, the network answers or the call fails, the chain settles a
\* transaction, and the service is started again after a crash.  Signing asks
\* the node for a nonce and may fail, but not for ever.
Fairness ==
    /\ WF_vars(Boot)
    /\ WF_vars(LoopStep)
    /\ WF_vars(ChainStep)
    /\ \A l \in Lanes : SF_vars(SignOk(l)) /\ WF_vars(LaneStep(l))

FairSpec == Spec /\ Fairness

-----------------------------------------------------------------------------
(* Properties *)

Outcomes == {"sent", "executed"} \cup Faults

Transaction == [pays : SUBSET Requests, actions : Nat, state : Outcomes, at : Int]

\* A lane holds copies of rows; from the sending on, a batch the chain has seen.
LaneTypeOK ==
    /\ DOMAIN lane = Lanes
    /\ \A l \in Lanes :
          /\ lane[l].pc \in LanePcs
          /\ DOMAIN lane[l].items \subseteq 1..lastItemId
          /\ lane[l].items \in [DOMAIN lane[l].items -> Row]
          /\ IF lane[l].pc \in {"sending", "backoff"}
             THEN lane[l].batch \in DOMAIN chain
             ELSE lane[l].batch = Null

ChainTypeOK ==
    /\ DOMAIN chain \subseteq 1..lastBatchId
    /\ chain \in [DOMAIN chain -> Transaction]

\* Every variable has its type, and ids are below their counters.
TypeOK ==
    /\ QueueTypeOK
    /\ LaneTypeOK
    /\ ChainTypeOK
    /\ phase \in Phases
    /\ todo \subseteq 1..lastBatchId
    /\ waiting \in BOOLEAN
    /\ crashes \in 0..MaxCrashes
    /\ unstalls \in 0..MaxUnstalls

Executed == {b \in DOMAIN chain : chain[b].state = "executed"}

Payments(r) == {b \in Executed : r \in chain[b].pays}

Succeeded(b) == b \in DOMAIN batchTx /\ batchTx[b] = "success"

\* A transfer that the API reports as successful has been paid in full: every
\* request added up in a row of a successful batch is in a transaction the chain
\* executed.  The row and the copy it was paid from must not have drifted apart.
SuccessMeansPaid ==
    \A i \in DOMAIN queue :
        Succeeded(queue[i].batch_id) => \A r \in queue[i].amount : Payments(r) # {}

\* Why SuccessMeansPaid holds, as an inductive invariant: while nothing is merged,
\*   - the chain knows every batch, and has executed those that succeeded,
\*   - a row is paid by the transaction of the batch it names,
\*   - the copy a lane holds of a row is still worth what the row is.
BatchesKnown ==
    /\ DOMAIN batchTx \subseteq DOMAIN chain
    /\ \A b \in DOMAIN batchTx : Succeeded(b) => chain[b].state = "executed"

RowsPaidByBatch ==
    \A i \in DOMAIN queue : queue[i].batch_id # Null =>
        /\ queue[i].batch_id \in DOMAIN chain
        /\ queue[i].amount \subseteq chain[queue[i].batch_id].pays

CopiesCurrent ==
    \A l \in Lanes : \A i \in DOMAIN lane[l].items :
        lane[l].items[i].amount = queue[i].amount

PaidInv == BatchesKnown /\ RowsPaidByBatch /\ CopiesCurrent

\* No request is paid twice.
AtMostOnce == \A r \in Requests : \A b, c \in Payments(r) : b = c

\* Rows, lanes and batches fit together, whatever fails, crashes, is unstalled or
\* merged; an inductive invariant:
\*   - lanes are at work in an iteration only, and hold nothing when they are not,
\*   - no two of them hold the same row or the same batch,
\*   - a row that a lane holds is in the batch of the lane or in none,
\*   - the batch of a lane has not succeeded yet,
\*   - start() has still to recover exactly the batches that are processing,
\*   - the copies of a lane are of the rows that the tickets name.
OneIteration ==
    \A l \in Lanes : phase # "batching" \/ lane[l].pc = "idle" => lane[l] = IdleLane

LanesApart ==
    \A l, m \in Lanes : l # m =>
        /\ DOMAIN lane[l].items \cap DOMAIN lane[m].items = {}
        /\ lane[l].batch # Null => lane[l].batch # lane[m].batch

LanesOwnRows ==
    \A l \in Lanes : \A i \in DOMAIN lane[l].items :
        queue[i].batch_id \in {Null, lane[l].batch}

LanesUndecided == \A l \in Lanes : ~ Succeeded(lane[l].batch)

RecoveryExact ==
    todo = IF phase = "recovering" THEN PendingBatchTransactions ELSE {}

CopiesHold ==
    \A l \in Lanes : \A i \in DOMAIN lane[l].items :
        \A r \in lane[l].items[i].amount : ticket[r] = i

LaneInv == /\ OneIteration
           /\ LanesApart
           /\ LanesOwnRows
           /\ LanesUndecided
           /\ RecoveryExact
           /\ CopiesHold

\* Why AtMostOnce holds, inductive together with LaneInv: while nothing takes a row
\* out of a batch before the chain has refused its transaction,
\*   - the rows a live transaction pays stay in its batch,
\*   - no row of a batch is stalled, so that an unstall call takes none out,
\*   - start() is over before anything is sent.
OnTheWay(r) ==
    {b \in DOMAIN chain : chain[b].state \in {"sent", "executed"} /\ r \in chain[b].pays}

PaidRowsPinned ==
    \A r \in Requests : \A b \in OnTheWay(r) :
        ticket[r] # Null /\ queue[ticket[r]].batch_id = b

BatchedUnstalled ==
    \A i \in DOMAIN queue : queue[i].batch_id # Null => ~ queue[i].is_stalled

NothingSentBeforeLoop ==
    phase \in {"down", "starting", "recovering"} => DOMAIN chain = {}

\* The conjunction: no money of a row is on its way twice.
OnceInv == PaidRowsPinned /\ BatchedUnstalled /\ NothingSentBeforeLoop

\* With crashes and lost answers a request may be paid again, but never more
\* often than its row was given up and retried.
PaymentsWithinRetries ==
    \A r \in Requests :
        ticket[r] # Null => Cardinality(Payments(r)) <= queue[ticket[r]].retry_count + 1

\* Why, inductive together with LaneInv while no operator unstalls: a transaction
\* that pays the row and was not refused is counted as a retry of the row, except
\* the one of the batch that the row is in.
RetriesCountPayments ==
    \A r \in Requests :
        IF ticket[r] = Null
        THEN OnTheWay(r) = {}
        ELSE Cardinality(OnTheWay(r)) <= queue[ticket[r]].retry_count
                                         + (IF queue[ticket[r]].batch_id = Null THEN 0 ELSE 1)

\* A batch that is processing is never forgotten: a lane waits for its answer,
\* start() has still to recover it, or its failure was of unknown kind, and it stays
\* until the next start().  So a row in it is not out of reach.
RecoveryAhead == phase \in {"down", "starting", "recovering"}

ProcessingAttended ==
    \A b \in PendingBatchTransactions :
        \/ \E l \in Lanes : lane[l].batch = b
        \/ RecoveryAhead
        \/ b \in DOMAIN chain /\ chain[b].state = "unknownFailure"

\* A row that is stalled is not in flight ("Stalled item excluded from future
\* batches", README, case 2), so that an operator who unstalls it takes it out of no
\* transaction.  Only a crash between the two transactions of
\* the handler of ActionError leaves one in a batch, until start() has recovered it.
StalledNotInFlight ==
    \A i \in Stalled(queue) :
        queue[i].batch_id \in PendingBatchTransactions => RecoveryAhead

\* A row that names a batch names one that exists, so that it is paid, recovered
\* or reset one day, and the API never answers "unknown".
NeverOrphaned ==
    \A i \in DOMAIN queue : queue[i].batch_id # Null => queue[i].batch_id \in DOMAIN batchTx

\* SUCCESS is a final state (README, state diagram): once a transfer is reported
\* successful it stays so, through other batches, unstalls and restarts.
SuccessIsFinal ==
    [][\A i \in DOMAIN queue :
           StatusOf(i) = "success" => StatusOf(i)' = "success"]_vars

\* "Isolates and stalls problematic transfers": a transfer with retries left is
\* stalled only if an action of its own failed.
OnlyTheFailedItemStalls ==
    [][\A i \in DOMAIN queue :
           /\ ~ queue[i].is_stalled /\ queue'[i].is_stalled
           /\ queue'[i].retry_count <= MaxRetries
           => \E l \in Lanes : /\ Answered(l, "actionError")
                              /\ i = Owner(lane[l].items, chain[lane[l].batch].at)]_vars

\* Why a stalled row enters no batch (StalledNotInFlight): nothing stalls a row between peek and the write of
\* its batch.  A cap on retries cannot, for lack of other lanes, or, as long as no
\* operator unstalls, because the retries of the row are not used up.
RetriesLeft ==
    \A i \in DOMAIN queue : ~ queue[i].is_stalled => queue[i].retry_count <= MaxRetries

SigningUnstalled ==
    \A l \in Lanes : lane[l].pc = "signing" =>
        \A i \in DOMAIN lane[l].items : ~ queue[i].is_stalled

\* No transaction has more actions than MAX_ACTIONS, and
\* none is empty: processBatch always finds an item that fits.
TransactionsFit == \A b \in DOMAIN chain : chain[b].actions \in 1..MaxActions

\* Why OnlyTheFailedItemStalls and StallsOnlyFromBatch hold: the transaction of a
\* lane is the one of the items it holds, and its batch is processing ...
SentAsHeld ==
    \A l \in Lanes : lane[l].batch # Null =>
        /\ lane[l].batch \in PendingBatchTransactions
        /\ chain[lane[l].batch].pays = Paid(lane[l].items)
        /\ chain[lane[l].batch].actions = NumActions(lane[l].items)

\* ... and the rows that a lane has sent are in the batch until the lane returns,
\* whatever operators unstall and clients post meanwhile.
SentStayBatched ==
    \A l \in Lanes : lane[l].batch # Null =>
        \A i \in ItemsToProcess(lane[l].items) : queue[i].batch_id = lane[l].batch

\* "Individual failures don't block other transfers" (README): a transfer with
\* retries left is stalled by the failure of a batch it is in, never while it waits
\* for its turn.  One that an operator unstalled after it had used them up keeps its
\* count, and is stalled again, untried, by the failure of any batch.
StallsOnlyFromBatch ==
    [][\A i \in DOMAIN queue :
           /\ queue[i].batch_id = Null /\ ~ queue[i].is_stalled
           /\ queue[i].retry_count <= MaxRetries
           => ~ queue'[i].is_stalled]_vars

\* Fewer rows wait than minQueueToProcess asks for, and this one is of them.
TooFew(i) == i \in Pending(queue) /\ Cardinality(Pending(queue)) < MinQueue

\* Every accepted request is settled in the end: paid, or stalled for an operator
\* to look at ("failed items automatically retry up to MAX_RETRIES times").  Only
\* minQueueToProcess can keep it waiting, where too few wait with it: not the
\* action limit, a failing signature, a lost answer, a crash or a short slice.
EverySettled ==
    \A r \in Requests :
        ticket[r] # Null ~>
            \/ ticket[r] # Null /\ StatusOf(ticket[r]) \in {"success", "stalled"}
            \/ [](ticket[r] # Null /\ TooFew(ticket[r]))

\* waitUntilIdle() resolves, unless something is stalled or too few rows stay
\* behind: the count it waits for includes both.
WaitersReleasedOrStuck ==
    waiting ~> \/ ~ waiting
               \/ Stalled(queue) # {}
               \/ [](\E i \in DOMAIN queue : TooFew(i))

\* The life cycle that a client sees: the status of the row its ticket names,
\* and how many executed transactions pay it.
ShownStatus ==
    [r \in Requests |-> IF ticket[r] = Null THEN "none" ELSE StatusOf(ticket[r])]

PaymentCounts == [r \in Requests |-> Cardinality(Payments(r))]

Lifecycle == INSTANCE TransferLifecycle WITH
                 status <- ShownStatus, payments <- PaymentCounts

\* The executor implements the life cycle: each request moves along the edges of
\* the state diagram only, is paid while it is processing and never twice, and
\* is neither given back nor stalled once it is paid.
ImplementsLifecycle == Lifecycle!Spec
=============================================================================
