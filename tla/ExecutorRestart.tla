-------------------------- MODULE ExecutorRestart --------------------------
(***************************************************************************)
(* start() and stop() of src/src/executor/index.ts, called in any order,   *)
(* on one executor with one signing key.  start() looks at isRunning, then *)
(* awaits the signer and the recovery of old batches, and sets isRunning   *)
(* only then; stop() clears it, and a loop notices after its next sleep.   *)
(* So a program that is not patient may have several loops running.        *)
(*                                                                         *)
(* Each call of start() goes on as the loop that it starts, and each loop  *)
(* has one lane: lane k of Executor is here the lane of call k, and        *)
(* NumKeys bounds the calls.  What happens in a lane, in the queue and on  *)
(* the chain is Executor's.  Its own start and loop, and with them phase,  *)
(* todo, waiting, crashes and unstalls, stay as they are.                  *)
(***************************************************************************)
EXTENDS Executor

VARIABLES
    isRunning,
    pc,         \* where each call of start(), and then its loop, is
    todos,      \* batches each call has still to recover
    hurried     \* history: a start() went on while another call was under way

callVars == <<isRunning, pc, todos, hurried>>
restartVars == <<vars, callVars>>
asideVars == <<phase, todo, chain, waiting, crashes, unstalls>>

Calls == Lanes
Pcs == {"uncalled", "starting", "recovering", "batching", "sleeping", "over"}

Starting(k) == pc[k] \in {"starting", "recovering"}
Looping(k) == pc[k] \in {"batching", "sleeping"}
UnderWay(k) == Starting(k) \/ Looping(k)

Goes(k, p) == pc' = [pc EXCEPT ![k] = p]

-----------------------------------------------------------------------------
(* start() and stop() *)

NextCall(k) == pc[k] = "uncalled" /\ \A j \in 1..(k - 1) : pc[j] # "uncalled"

StartReturns(k) ==
    /\ NextCall(k) /\ isRunning
    /\ Goes(k, "over")
    /\ UNCHANGED <<vars, isRunning, todos, hurried>>

\* Mutant: isRunning is not looked at.
StartUnchecked(k) ==
    /\ NextCall(k)
    /\ Goes(k, "starting")
    /\ hurried' = (hurried \/ (~ isRunning /\ \E j \in Calls : UnderWay(j)))
    /\ UNCHANGED <<vars, isRunning, todos>>

Start(k) ==
    /\ NextCall(k) /\ ~ isRunning
    /\ Goes(k, "starting")
    /\ hurried' = (hurried \/ \E j \in Calls : UnderWay(j))
    /\ UNCHANGED <<vars, isRunning, todos>>

Stop ==
    /\ isRunning
    /\ isRunning' = FALSE
    /\ UNCHANGED <<vars, pc, todos, hurried>>

\* The head of an iteration, up to the first await.
PollAlone(k, q) ==
    LET items == [i \in Peek(q, BatchSize) |-> q[i]]
    IN  IF DOMAIN items # {} /\ Cardinality(DOMAIN items) >= MinQueue
        THEN lane' = [lane EXCEPT ![k] = LaneAt("signing", items, Null)] /\ Goes(k, "batching")
        ELSE UNCHANGED lane /\ Goes(k, "sleeping")

\* One turn of recoverProcessingTransactions, over the list it took at its
\* beginning; after the last one, recover(), isRunning and the first iteration.
RecoverTurn(k, pending) ==
    \/ \E b \in pending :
          /\ RecoverFailedBatch(b, TRUE, FALSE)
          /\ todos' = [todos EXCEPT ![k] = pending \ {b}]
          /\ Goes(k, "recovering")
          /\ UNCHANGED <<execVars, isRunning, hurried>>
    \/ /\ pending = {}
       /\ Recover
       /\ isRunning' = TRUE
       /\ PollAlone(k, ResetRows(queue, batchTx))
       /\ UNCHANGED <<todos, hurried, asideVars>>

Recovery(k) ==
    \/ pc[k] = "starting" /\ RecoverTurn(k, PendingBatchTransactions)
    \/ pc[k] = "recovering" /\ RecoverTurn(k, todos[k])

-----------------------------------------------------------------------------
(* run() *)

\* Mutant: the loop does not wait for its batches before it goes on.
LoopUnawaited(k) ==
    /\ pc[k] = "batching"
    /\ Goes(k, "sleeping")
    /\ UNCHANGED <<vars, isRunning, todos, hurried>>

LoopDone(k) ==
    /\ pc[k] = "batching" /\ lane[k].pc = "idle"
    /\ Goes(k, "sleeping")
    /\ UNCHANGED <<vars, isRunning, todos, hurried>>

\* Mutant: while (true).
WakeAnyway(k) ==
    /\ pc[k] = "sleeping"
    /\ PollAlone(k, queue)
    /\ UNCHANGED <<queueVars, isRunning, todos, hurried, asideVars>>

\* The sleep is over: another iteration, or the end of the loop.
WakeUp(k) ==
    /\ pc[k] = "sleeping"
    /\ IF isRunning
       THEN PollAlone(k, queue)
       ELSE Goes(k, "over") /\ UNCHANGED lane
    /\ UNCHANGED <<queueVars, isRunning, todos, hurried, asideVars>>

CallStep(k) == Recovery(k) \/ LoopDone(k) \/ WakeUp(k)

-----------------------------------------------------------------------------
(* What Executor does *)

Alongside == UNCHANGED callVars

LoopLaneStep(k) == (SignOk(k) \/ SignFail(k) \/ LaneStep(k)) /\ Alongside

ChainAlongside == ChainStep /\ Alongside

PushAlongside(r, deposit) == Push(r, deposit) /\ UNCHANGED <<execVars, callVars>>

RestartInit ==
    /\ QueueInit
    /\ lane = [k \in Lanes |-> IdleLane]
    /\ chain = EmptyFunction
    /\ phase = "down" /\ todo = {} /\ waiting = FALSE /\ crashes = 0 /\ unstalls = 0
    /\ isRunning = FALSE
    /\ pc = [k \in Calls |-> "uncalled"]
    /\ todos = [k \in Calls |-> {}]
    /\ hurried = FALSE

RestartNext ==
    \/ \E k \in Calls : Start(k) \/ StartReturns(k) \/ CallStep(k) \/ LoopLaneStep(k)
    \/ Stop
    \/ ChainAlongside
    \/ \E r \in Requests, d \in DepositFlags : PushAlongside(r, d)

RestartSpec == RestartInit /\ [][RestartNext]_restartVars

\* Timers fire, promises settle and the chain decides; nobody must call anything.
RestartFairness ==
    /\ \A k \in Calls : WF_restartVars(CallStep(k)) /\ WF_restartVars(LoopLaneStep(k))
    /\ WF_restartVars(ChainAlongside)

FairRestartSpec == RestartSpec /\ RestartFairness

-----------------------------------------------------------------------------
(* Properties; SuccessMeansPaid and NeverOrphaned are Executor's *)

\* isRunning, calls, loops and lanes are where the code can be.
RestartTypeOK ==
    /\ TypeOK
    /\ isRunning \in BOOLEAN /\ hurried \in BOOLEAN
    /\ pc \in [Calls -> Pcs]
    /\ todos \in [Calls -> SUBSET (1..lastBatchId)]

\* stop() and a patient start(), which waits for the stopped loop to end, pay
\* nothing twice: what a loop has sent is decided before it ends, and recover()
\* finds nothing in flight.  start() while the loop runs does nothing.
PatientRestartPaysOnce == ~ hurried => AtMostOnce

\* Why, as an inductive invariant: only a batching loop holds anything, and what it
\* holds it has copied from the rows that the tickets name; and, until somebody
\* hurries,
\*   - one call at most is under way,
\*   - the rows a live transaction pays stay in its batch (Executor's),
\*   - a live transaction that is not yet reported has a lane that waits for it,
\*   - so what a start() has still to recover was refused,
\*   - and the rows that are being signed are in no batch.
OnlyLoopsHold ==
    \A k \in Calls : pc[k] # "batching" \/ lane[k].pc = "idle" => lane[k] = IdleLane

OneUnderWay == \A j, k \in Calls : UnderWay(j) /\ UnderWay(k) => j = k

MayPay(b) == b \in DOMAIN chain /\ chain[b].state \in {"sent", "executed"}

PayersAttended ==
    \A b \in PendingBatchTransactions : MayPay(b) => \E k \in Calls : lane[k].batch = b

RecoversRefused == \A k \in Calls : pc[k] = "recovering" => \A b \in todos[k] : ~ MayPay(b)

SigningUnbatched ==
    \A k \in Calls : lane[k].pc = "signing" =>
        \A i \in DOMAIN lane[k].items : queue[i].batch_id = Null

Patience == /\ OneUnderWay
            /\ PaidRowsPinned
            /\ PayersAttended
            /\ RecoversRefused
            /\ SigningUnbatched

PatientInv == OnlyLoopsHold /\ CopiesHold /\ (hurried \/ Patience)

\* A stopped executor comes to rest, its last transactions decided, unless it is
\* started again: by a later start(), or by one that was under way when stop()
\* was called and does not notice it.
StopEndsLoops ==
    ~ isRunning ~> isRunning \/ \A k \in Calls : ~ Looping(k)
=============================================================================
