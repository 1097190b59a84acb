# A TLA+ model of near-ft-transfers

The service queues fungible-token transfers in SQLite and pays them on NEAR in
batched transactions. It handles money, with one JavaScript thread, several
signing keys at work in the gaps between awaits, a chain that decides in its own
time, operators who put transfers back by hand, and crashes. This directory holds
a model of it in TLA+, checked with TLC, and proofs checked with TLAPS. Source
files are named as `src/<path>`; `queue` means `src/src/queue/index.ts`,
`executor` means `src/src/executor/index.ts`, `api` means `src/src/index.ts`.

## The system

| Component | State | Operations | Talks to |
|---|---|---|---|
| Queue (`queue`) | tables `queue` and `batch_transactions`, two AUTOINCREMENT counters; survives crashes | push, peek, createSignedTransaction, markBatchSuccess, markItemStalled, recoverFailedBatch, recover, the three unstall calls, queries | called synchronously by the executor and the API |
| Executor (`executor`) | isRunning, idleResolvers, signer, and on the stack of each processBatch the peeked items and the batch id; lost in a crash | start, recoverProcessingTransactions, run, processBatch, validateTransactionResult, handleBroadcastError, waitUntilIdle, stop | queue (calls), NEAR node (awaits) |
| HTTP API (`api`) | none of its own but the handlers in flight | POST /transfer, POST /transfers, GET and PATCH routes | validator (await), then queue |
| Account validator (`src/src/validation.ts`) | two caches with time stamps | accountExists, hasStorageDeposit, validate, validateBatch, clearCache | NEAR node (await, raced with a timeout) |
| Environment, schemas, utils | none | check strings at start-up and in requests | - |
| NEAR node and chain (external) | outcome of each transaction | executes or refuses | answers the executor, or not |

What is hard here:

- **Interleaving.** A queue operation is one synchronous SQLite transaction. But
  processBatch awaits between peek and createSignedTransaction, and between that
  and the answer; HTTP handlers and the other lanes run in the gaps. Rows change
  under the copies a lane holds.
- **Failure.** A transaction may be executed although its answer is lost. The
  service may crash between sending and the answer, and, in one handler, between
  two database transactions.
- **Retries.** A failed batch is given back, counted, and capped; the cap is a
  statement over the whole table.
- **Numbering.** The chain numbers actions, the executor numbers items.
- **Liveness.** Retries must end, waitUntilIdle() must resolve, and a minimum batch
  size may keep rows waiting.
- **Protocol.** start() tests a flag before two awaits and sets it after them;
  stop() only clears it. Nothing stops two loops over one queue.
- **Stale answers.** Handlers share two caches across awaits, with timers that race
  the queries, on a chain that changes.

What makes each component right:

- Queue: every accepted request is in exactly one row, the one its ticket names;
  a batch pays what its rows say; no row names a deleted batch; success is final.
- Executor: no request is paid twice; what is reported successful has been paid;
  the item that failed is the one that is stalled; every request is settled; a
  stopped executor comes to rest.
- Validator: a cache holds what the chain said when it was asked; a call ends in
  time whatever the node does.
- API: an answer says what has been queued; what is queued or refused rests on
  answers that were true not long ago.

## Modules

| Module | What it is |
|---|---|
| `TransferQueue` | the two tables and one operator per operation of class Queue; no Next of its own |
| `QueueClient` | TransferQueue under the most general caller that keeps to the protocol |
| `Executor` | TransferQueue + the loop, the lanes, the chain, start and crash, clients and operators |
| `ExecutorRestart` | start() and stop() in any order: extends Executor with the calls in flight and the loops they become |
| `AccountValidator` | the two caches, the calls that await the node, the chain's view of accounts and the clock; no Next of its own |
| `ApiService` | the POST handlers: AccountValidator (INSTANCE) and TransferQueue composed |
| `TransferLifecycle` | the abstract specification: status and payment of each request |
| `MCQueueClient`, `MCExecutor`, `MCExecutorRestart`, `MCApiService` | model values, the receiver of each request and the bodies of the POSTs, for TLC |
| `TransferQueueProofs` | lemmas on the updates and operations of the queue |
| `QueueClientProofs` | theorems about the tables under any caller |
| `ExecutorProofs` | type correctness and tickets of the executor; no row names a deleted batch |
| `ExecutorLaneProofs` | rows, lanes and batches fit together; success is final; stalled rows stay out |
| `ExecutorPaymentProofs` | what is reported successful is paid; payments are counted retries; no request is paid twice |
| `ExecutorLifecycleProofs` | the right item is stalled; the executor implements TransferLifecycle |
| `ExecutorRestartProofs` | types, orphans and payments under stop() and any number of calls of start() |
| `ApiServiceProofs` | what POST answers, how soon, and how old what it rests on may be |

Operators named in a comment that begins "Mutant:" are not part of the model: each
is the definition after it with a plausible mistake, and the property it is listed
with in PROJECT.json is violated when it takes that definition's place.

### TransferQueue

`queue` maps row ids to rows; ids are 1..lastItemId because rows are never
deleted. `batchTx` maps the ids of the existing batches to their status;
`lastBatchId` only grows (AUTOINCREMENT). Each UPDATE statement is an operator on
the value of the table (`RetriedRows`, `CappedRows`, ...), each method an action
made of them. Abstractions:

- `amount` is the set of requests added up in the row, so that a merge is a union
  and "paid" means that each of these requests is in an executed transaction.
- Time stamps, memos and hashes are left out. `error_message` is present or not.
- signed_tx is "" while a batch is processing and NULL after success, so
  `signed_tx IS NOT NULL` follows from the status.
- `ticket` is a history variable: the transfer id that each request was answered.
  A request is posted once; a client that posts again is another request.
- `.get()` on several mergeable rows returns any one: there may be several after a
  recovery, and the query has no ORDER BY.
- A batch is marked 'pending' or 'failed' by no code, so these values of the
  column are left out.

### Executor

One step is the code between two awaits.

| Variable | Code |
|---|---|
| `phase` | where start() and run() are: down, initializeSigner ("starting"), the sleep after a recovered batch ("recovering"), Promise.allSettled ("batching"), the poll sleep ("sleeping") |
| `todo` | the batches recoverProcessingTransactions has not come to |
| `lane[l]` | the l-th processBatch call: awaiting the signature, the answer, or the sleep of a refusal; with its copies of the items, and batchId |
| `chain` | history and environment: what each transaction pays, its number of actions and its outcome |
| `waiting` | idleResolvers is not empty |
| `crashes`, `unstalls` | counters for the bounds |

`Poll` is the head of an iteration up to the first await of each lane it starts;
`SignOk` runs from the resolved signature through createSignedTransaction to the
sending; each `Respond..` action is an answer with all the queue calls that it
leads to; `Backoff`/`BackoffDone` are the two halves of a refusal with its sleep in
between. The `sleep(1000)` after an outcome changes nothing and is part of the
delay before `LoopCompleted`. `RecoverStep` is one turn of the loop over pending
batches; its last turn includes recover() and the first poll, as the code does not
await in between. `Crash` forgets everything but the tables and the chain, and
may also strike between markItemStalled and recoverFailedBatch
(`CrashAfterStalling`).

The action limit (`MaxActions`, 100 in the code), `batchSize`, the number of keys
and `minQueueToProcess` are parameters. The longest prefix that fits the action
limit is given in closed form (`ItemsToProcess`) instead of the loop. One turn of the
loop is `LoopTurn`; `LoopTakesWhatFits` proves that the two agree on every batch, and
the assumption `BudgetLoop` of MCExecutor, which TLC evaluates in every run of that
module, computes the loop (`TakenByLoop`) on all batches of up to five items with gaps
in their ids.

The chain is external: a transaction that was sent is executed, or refused, once,
at any time, also after the executor has given it up. A receipt is atomic.

`Faults` says what may go wrong in a run: a signature fails, an answer is lost
(`network`), the node refuses (`rateLimit`, `invalidNonce`), an action fails, the
transaction is invalid, or fails in an unknown way.

### ExecutorRestart

index.ts calls start() once and stop() never, but both are public, and the tests use
them. `pc[k]` follows the k-th call of start(): it returns at once if isRunning is
set, else awaits initializeSigner ("starting"), recovers the batches it found there
(`todos[k]`, "recovering"), and goes on as a loop ("batching", "sleeping") until it
finds isRunning cleared after a sleep. A loop has one lane, Executor's lane k: this
is an executor with one key. Executor's actions for signing, answers and the chain
are taken as they are, its own loop and crashes are not used. `hurried` is a history
variable: some start() went past its test while another call was still under way,
which takes two calls before the first has set isRunning, or a stop() and a start()
within one sleep or one batch. stop() while a start() is under way changes nothing,
isRunning being FALSE already, and so is lost.

### AccountValidator and ApiService

| Variable | Code |
|---|---|
| `cache[question]` | accountCache and storageCache: an answer and its time stamp |
| `call[<<p, a>>]` | the validate(a) of handler p: which query it awaits and since when, or its result |
| `now`, `fact`, `changed` | environment: the clock, the true answers, and when each last changed (history) |
| `handler[p]`, `since[p]` | where the handler of POST p is, and since when it awaits validateBatch (history) |

A result is "valid", "undeposited", "nonexistent" or "failed" (no accountExists: a
timeout or an error). What a cache answers needs no await that matters, so a call
runs up to its first query, and after an answer up to the second. An answer of the
node is one that was true at some time since the query was sent; storage_balance_of
may also fail, which counts as "no deposit" and is cached so, while an error of
view_account and both timeouts are cached nowhere. The clock waits for timers that
are due, so one unit of it is the precision of a timer.

POST /transfer is POST /transfers with one transfer. From the moment its last
validation settles a handler runs to its answer without an await: the other steps
have the guard `AtRest`. Its loop of pushes is taken step by step all the same, since
a push may throw and the process may end between two of them. `Take` stands for the
executor: rows enter batches, so that later pushes do not merge into them.

### TransferLifecycle

The state diagram of src/README.md:376-411 with payments: processing transfers are
paid once, success is answered only for what is paid, and only what is not paid is
given back or stalled. `Executor!Lifecycle` is its instance under the refinement
mapping: the status of a request is that of the row its ticket names (`ShownStatus`),
and its payments are the executed transactions that pay it (`PaymentCounts`). They are
counted, not merely noticed: a second payment of a request is a step that
TransferLifecycle does not allow.

## Runs

All bounds are in the .cfg files. There are three requests, two of them to one
account, or two requests where crashes multiply the states.

| Run | Question | Bounds that matter |
|---|---|---|
| `queue` | does each call keep requests, rows and batches together, in any order of calls? | 2 batches ever created: enough for a row left by a deleted batch to meet a new one |
| `lanes` | is money safe with two lanes, when every answer arrives, and does every transaction fit? | batches of 2 and an action limit of 3, which cuts a batch of two unregistered receivers |
| `unstall` | may operators interfere at any time, with one key? | 1 unstall call, retries 0, so that rows stall early and again; merging on; refusals on; an action limit of 4 that cuts no batch, so that a wrong index stalls only rows of the batch |
| `crash` | are the tables consistent, repeats counted, every batch attended and stalled rows out of flight, under crashes and lost answers? | 2 crashes, so that a recovery is itself interrupted |
| `live` | is every request settled, and does waitUntilIdle() resolve, unless too few rows stay behind? | a minimum of 2 rows with 3 requests, batches of 2, an action limit of 3 that cuts a batch of two unregistered receivers, merging, failed signings, failing actions; 1 crash, whose recovery gives a batch back as a lost answer does. Left out: refusals, which orphan rows, and unknown failures, whose rows stay in their batch, unsettled, until somebody restarts the service |
| `lifecycle` | does the executor implement TransferLifecycle, and is the right item stalled? | 2 lanes, batches of 2, failures that are answered; every receiver has a deposit, so that items and actions are numbered alike |
| `restart` | what do stop() and several calls of start() do to one queue? | 2 calls of start(), any number of stop(): a hurried second start() may find the first recovering, signing, sending or asleep; 2 requests; unknown failures, which leave batches for the recovery to find |
| `api` | are answers true and in time, and how old is what they rest on? | 2 POSTs that share a receiver, TTL 2, timeout 1, clock up to 5, so that an entry is used by the other POST, and expires; 1 change of the chain; 1 disturbance (a push that throws, a crash or a batch) |

`CHECK_DEADLOCK` is off in `restart`, where all calls may be over, and in `api`, where
all POSTs may be answered. MaxAge, the bound of `api`, is CacheTTL + 3 Timeout - 1: an
answer up to a timeout old when it is cached, used just before it expires, in a
batch that then waits for both queries of another account. One less is violated. So
is the property with an age test that is dropped, or with a merge that keeps an
older "has a deposit".

Besides the properties a client or an operator would recognise, runs check the
inductive invariants that the proofs use, each where its assumptions hold: `OnceInv`
in `lanes`; `LaneInv`, `PaidInv` and `RetriesCountPayments` in `crash`;
`SentStayBatched` in `unstall`; `PatientInv` in `restart`.

Four runs are expected to end in a violation. Each checks what the documentation
or a comment says and shows a state in which the code does otherwise:

| Run | What TLC shows |
|---|---|
| `merge_race` | push merges into a row between peek and createSignedTransaction; the added amount is reported successful and never sent |
| `orphan` | after a refusal for rate limit or nonce the batch is deleted, its rows keep its id: status "unknown", never retried |
| `wrong_item` | with a receiver that has no deposit, the index of the failing action stalls another item, in the batch or cut from it and still waiting (or throws) |
| `unstall_pays_twice` | the failure of one lane's batch stalls a row that the other lane has peeked; it is sent all the same, unstalled in flight, so that it leaves its batch, and paid again, with no crash and no lost answer |

Two more facts are stated by properties of passing runs. After a crash the rows of a
transaction that was executed are signed again, because re-broadcasting is not
implemented (executor:153): `PaymentsWithinRetries` allows one payment more per
counted retry, and AtMostOnce fails there. And stalled rows are counted by
hasPendingOrProcessing, so that one of them keeps waitUntilIdle() waiting for ever:
`WaitersReleasedOrStuck` names them as the exception. Further differences between
documentation and code that need no run: src/README.md:660 calls the storage check
"Non-blocking", but when it times out the result has no accountExists, and the POST
is refused with 400; src/README.md:728 gives 10 seconds as the default timeout,
validation.ts has 5 and index.ts:37 sets 3.

The trace of `unstall_pays_twice` contains a smaller surprise: a stalled row is put in a
batch. `StalledNotInFlight` passes where there is no unstall call, or only one key. A
second surprise bounds `StallsOnlyFromBatch`: unstalling keeps the retry count, and the
cap on retries is applied to the whole table. So a row that was unstalled after its
retries were used up is stalled again, untried, by the failure of any batch, while
src/README.md:371 has it "Automatically picked up by executor in next cycle". Without
the conjunct that the row has retries left, the `unstall` run violates the property.

The passing runs leave out just what these runs show: `lanes` has no merging (the
merge race), refusals appear only where NeverOrphaned is not claimed, and so on.
The configuration of a violation differs from that of a passing run in little more
than the culprit.

### Fairness

`FairSpec` assumes: the service is started again after a crash (docker restarts
it); timers fire and promises settle, because sendSignedTransaction either answers
or throws (`WF` on the loop and on each lane); the chain settles a transaction it
holds; and a signature that is asked for again and again succeeds in the end (`SF`
on SignOk). The last is an assumption about the node that hands out nonces, not
about the code: a failing signature counts no retry, so without it a transfer may
be tried for ever. Nothing obliges clients to post or operators to unstall, and
crashes are bounded. `EverySettled` and `WaitersReleasedOrStuck` have an exception
that must hold for ever (`[]` inside `~>`), so that passing by a state with few rows
does not count.

`FairRestartSpec` assumes the same of each call of start(), of each lane and of the
chain, and nothing of who calls start(), stop() or push. The API has no liveness
property: that handlers answer in time is the safety property `AnsweredInTime`, and
rests on timers that fire.

## Proofs

All proofs hold for any number of requests, accounts, keys, retries, batches and
any sizes, from the named assumptions on the constants only (`QueueAssumption`,
`ExecutorAssumption`, `ApiAssumption`), which TLC evaluates in the runs.

- `QueueInvariant`: `QueueTypeOK /\ TicketHolds` under the general client. It is
  inductive as it stands: push moves the ticket and the amount together, and the
  other updates keep amounts (`SameMoney`).
- `FrozenAmounts`, `FreshBatches`: the action properties of `queue`. The second
  needs the type invariant: no row has a batch id above the counter.
- `TypeInvariant`: `TypeOK /\ TicketHolds` of the executor. It rests on the queue
  lemmas, one lemma per action, `PollType` for what a poll puts in the lanes, and
  `LaneMoved` for one lane that moves.
- `NoOrphans`: assuming no refusals (`NoRefusals`), `NeverOrphaned`. The invariant
  `OrphanInv` adds that no lane is backing off; every remaining way to delete a
  batch (`RetriedFrees`, `ResetIds`) frees exactly its rows. The `orphan` run shows
  that the assumption is needed.
- `LaneInvariant`: `LaneInv`, with no assumption at all: whatever fails, crashes, is
  unstalled or merged, no row and no batch is in the hands of two lanes, a lane's rows
  are in its batch or in none, its batch has not succeeded, its copies are of the rows
  the tickets name, and start() has still to recover exactly what is processing. It
  is inductive because a poll deals out disjoint slices of rows that are in no batch,
  and because a failure gives back rows of its own batch only (`RetriedGivesBack`,
  `RecoveredGivesBack`, `MarkedGivesBack`, `LaneLetsGo`). The other executor proofs
  rest on it.
- `SuccessStaysFinal`: `SuccessIsFinal`, with no assumption. A successful batch is held
  by no lane and is not among those start() recovers (`SuccessHeldByNone`), so that
  nothing gives its rows back; a failing item is a row of the lane that reports it
  (`FailingItem`, which needs that the index, when it is in range, finds an item:
  `RankReached`); and push, which merges, does not merge into a batch.
- `AttendedInvariant`: `ProcessingAttended`, with no assumption. A batch that is
  processing is held by a lane, or start() has still to recover it, or its transaction
  failed in an unknown way; every return of a lane but that one ends its batch. This is
  the safety half of `EverySettled`: a row is never in a batch that nobody comes back to.
- `StalledRestsOutside`: `StalledNotInFlight`, with one key or without unstall calls
  (`Uncapped`). Each handler that stalls a row of its batch also takes the row out of it,
  but for a crash between its two transactions; the cap takes only rows in no batch,
  and by `SigningUnstalled` none of those enters one afterwards.
- `SigningInvariant`: with one key, or without unstall calls, `SigningUnstalled`. Nothing
  looks at a row between peek and the write of its batch; with one lane no failure can
  come in between, and with several the cap cannot reach a row that waits, because its
  retries are not used up (`RetriesLeft`). An unstalled row keeps its count and
  breaks that, which is what `unstall_pays_twice` shows.
- `LoopTakesWhatFits`: after k turns the loop of processBatch has taken the first k
  items as far as they fit, and counted their actions (`AfterTurns`, `TurnTakes`), so in
  the end it has taken `ItemsToProcess`, for every batch. The induction is that of the
  least turn that goes wrong (`LeastElement`). `WithinActionLimit`: `TransactionsFit`,
  with no assumption: what fits ends with a greatest item, whose actions with those
  before it are the actions of the transaction (`ActionsFit`), and the first peeked item
  always fits, because MAX_ACTIONS is at least two. So the early return of processBatch
  for a batch in which nothing fits is never taken, and is left out of the model.
- `PaidInvariant`, `ReportedSuccessIsPaid`: without merging, under every fault,
  crash, refusal and unstall, `SuccessMeansPaid`. The inductive invariant `PaidInv`
  follows the money from a row to a copy, from the copies to a transaction, and
  from there to the status: the chain has executed every batch that is marked
  successful, a row is paid by the transaction of the batch it names, and a copy is
  worth what its row is. `merge_race` shows that the last part fails with merging.
- `RetriesInvariant`, `PaidOncePerRetry`: without unstalls, under every fault and any
  number of crashes, `PaymentsWithinRetries`. `RetriesCountPayments` counts the
  transactions that may pay a request (`OnTheWay`, a finite set): each is a counted
  retry of its row, but the one of the batch the row is in. So taking a row out of
  its batch either counts a retry, or is a refusal, after which the transaction
  is not on the way any more; the reset of start() finds no row in a batch that is
  processing, because `RecoveryExact` says that all of them have been given back.
- `OnceInvariant`, `PaidAtMostOnce`: without crash and lost answer, and without
  unstalls unless there is one key (`Undisturbed`), no request is in two executed
  transactions. AtMostOnce is not inductive: it says nothing of how a request reaches
  a transaction. `OnceInv` does. The rows a live transaction pays stay in its batch
  (`PaidRowsPinned`), so a row that is in no batch is paid by no live transaction; a
  signing lane's rows are in none and in no other lane (`LaneInv`). The chain must have
  refused a transaction before its rows are freed, start() frees rows only before
  anything is sent (`NothingSentBeforeLoop`), and no row in a batch is stalled
  (`BatchedUnstalled`, from `SigningUnstalled`), so that unstall calls take none out.
- `HeldInvariant`: `SentAsHeld`, with no assumption: until a lane returns its batch is
  processing, and its transaction is that of the items it holds. `BatchedInvariant`:
  with one key or without unstalls, what it sent stays in the batch meanwhile
  (`SentStayBatched`), since by `StalledNotInFlight` an unstall call finds no stalled row
  in a batch that a lane holds.
- `StallsTheFailedItem`, `StallsWhatItSent`: where every receiver has a deposit
  (`DepositFlags` holds only TRUE, the assumption that `wrong_item` shows to be needed)
  `OnlyTheFailedItemStalls` under all faults, crashes, unstalls and merges, and
  `StallsOnlyFromBatch` with one key or without unstalls. The heart is arithmetic: with
  one action for each item, the item at the index of the failing action is the item that owns the
  action, also in a batch that was cut (`RankApart`, `ActionsCount`, `OwnerIsItemAt`).
- `LifecycleImplemented`: the refinement, under the assumptions of the `lifecycle` run
  (`Orderly`), for any number of requests, keys and retries, any batch size and
  action limit. Initial states map to the initial state, and every step of the
  executor is a step of TransferLifecycle or a stutter (`LifeStep`): a post accepts,
  SignOk takes the rows of the batch (`LifeSignOk`), the chain pays all of a
  transaction (`LifeExecute`) or nothing, so that the count of its requests becomes one
  (`PaidByItsBatch`, `CountsShown`: no other executed transaction pays them), an answer reports success of what was
  paid (`LifeSuccess`) or gives up what was not (`LifeGivesUp`). Which requests an
  answer concerns follows from `PaidInv`, `OnceInv`, `SentAsHeld` and
  `SentStayBatched` together.
- `RestartTypes`, `RestartNoOrphans`, `RestartSuccessIsPaid`: the invariants of
  Executor carry over to ExecutorRestart, where lanes belong to loops that recover
  each other's batches: types and tickets with no assumption, orphans without
  refusals, `SuccessMeansPaid` without merging. They do not need `LaneInv`, which fails
  there.
- `PatientInvariant`, `RestartPaysOnce`: if every answer arrives, `PatientRestartPaysOnce`,
  for any number of calls of start() and stop(). `PatientInv` says that, until somebody
  hurries, one call is under way, a live transaction that is not yet reported has a
  lane that waits for it (`PayersAttended`), so that what a later start() finds
  processing was refused (`RecoversRefused`: only an answer of unknown kind leaves such
  a batch), and rows that are being signed are in no batch. A stopped loop is under
  way until its lanes have returned; that is what the mutant `LoopUnawaited` breaks.
- `ApiTypes`, `TimelyAnswers`, `CacheTruth`, `TrueAnswers`, `ChecksHold`,
  `RefusalsHold`: all properties of the `api` run, for any TTL and timeout, any number
  of handlers, and a chain that changes at any time. Time first (`Clocked`): a call
  that waits is not overdue, asked its first question when its handler began and
  its second one within a timeout. So a handler that is not done after two timeouts
  has no call left to wait for, and an answer is stamped less than a timeout after
  the query (`StampTrue`). What was true since some time stays so when the chain
  changes (`StaysTrue`), so entries stay true (`CacheStep`). Then decisions
  (`Backed`): each result of a waiting handler rests on answers that were true at
  `Oldest` of the time it began, CacheTTL + Timeout - 1 earlier; the two timeouts
  that it waits at most add up to MaxAge. With a MaxAge one smaller the last lemma
  (`OldestIsRecent`) fails, as the property does in TLC.

Every safety and step property of the passing runs is thus proved, each under the
assumptions named above. What most of them exclude is what a violating run, or the
remarks on crashes and unstalls under Runs, show to break the property. The deposits in
`StallsWhatItSent` and `LifecycleImplemented` are needed too: executor:345 applies the
index of the failing action to all peeked items, also those that the action limit cut
from the batch. So without deposits a row that is in no batch, and still waits for its
turn with retries left, may be stalled; with an action limit of 3 and two items of two actions TLC
finds it at once.

Only model-checked: the liveness properties `EverySettled`,
`WaitersReleasedOrStuck` and `StopEndsLoops`, because the prover handles neither
fairness nor ENABLED.

## Not modelled

- start() failing in initializeSigner: its rejection is handled by nobody (`api`:33),
  the process ends and is started again, which is a crash in the phase "starting".
- Several loops with several lanes each: ExecutorRestart has one key.
- Crashes in ExecutorRestart (they end all calls at once, which is Executor's crash),
  unstalls, and waiters there.
- An in-memory database (`DATABASE_PATH=:memory:`, the default for development): the
  tables of the models survive a crash.
- A client that posts again after a lost answer: it is another request.
- The other GET routes and getCacheStats, which read only; validateBatch's branch
  for rejected calls, which validate() never takes.
- Arithmetic of amounts (BigInt, no overflow), JSON, SQL syntax, events for
  listeners, logging, configuration parsing.
- What the token contract does with a transfer; a receipt is executed as a whole.

## Plan

1. Done: TransferQueue, QueueClient, Executor, TransferLifecycle and their runs;
   type correctness, tickets, orphans and at-most-once proved.
2. Done: ExecutorRestart, AccountValidator, ApiService; liveness with a minimum batch
   size; the budget loop against its closed form; the properties of ApiService proved.
3. Done: the inductive invariants of lanes, payments and retries; success, stalling
   and at-most-once proved from them; the refinement of TransferLifecycle; the loop of
   processBatch and the action limit; ExecutorRestart.
4. Done: the refinement counts payments; `ProcessingAttended` and
   `StalledNotInFlight`, checked and proved; `SentStayBatched` and
   `StallsOnlyFromBatch` with unstalls.
5. Left: ImplementsLifecycle with unstalls for one key, whose abstract specification
   would need the edge from waiting to stalled that the cap opens for unstalled rows.
