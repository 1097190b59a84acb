----------------------- MODULE ExecutorRestartProofs -----------------------
(***************************************************************************)
(* start() and stop() in any order: types, no lost row and no false        *)
(* success even with several loops over one queue; and no double payment   *)
(* as long as nobody starts a loop before the last one has ended.          *)
(***************************************************************************)
EXTENDS ExecutorRestart, ExecutorPaymentProofs

-----------------------------------------------------------------------------
(* The steps, seen from Executor *)

\* What is no step of Executor is the recovery and the poll of one call, or a push.
Restarts ==
    \/ [Next]_vars
    \/ \E b : RecoverFailedBatch(b, TRUE, FALSE) /\ UNCHANGED execVars
    \/ \E k \in Calls : /\ Recover
                        /\ PollAlone(k, ResetRows(queue, batchTx))
                        /\ UNCHANGED asideVars
    \/ \E k \in Calls : PollAlone(k, queue) /\ UNCHANGED <<queueVars, asideVars>>
    \/ \E r \in Requests, d \in DepositFlags : Push(r, d) /\ UNCHANGED execVars

LEMMA RestartStepKinds ==
    ASSUME [RestartNext]_restartVars
    PROVE  Restarts
<1>1. ASSUME NEW k \in Calls, CallStep(k)
      PROVE  Restarts
  <2>1. ASSUME NEW pending, RecoverTurn(k, pending)
        PROVE  Restarts
    BY <2>1, Zenon DEF RecoverTurn, Restarts
  <2>2. CASE WakeUp(k)
    <3>1. CASE isRunning
      BY <2>2, <3>1 DEF WakeUp, Restarts
    <3>2. CASE ~ isRunning
      BY <2>2, <3>2 DEF WakeUp, Restarts, asideVars, vars, execVars
    <3> QED BY <3>1, <3>2
  <2> QED BY <1>1, <2>1, <2>2 DEF CallStep, Recovery, LoopDone, Restarts
<1>2. ASSUME NEW k \in Calls, Start(k) \/ StartReturns(k)
      PROVE  Restarts
  BY <1>2 DEF Start, StartReturns, Restarts
<1>3. ASSUME NEW k \in Calls, LoopLaneStep(k)
      PROVE  Restarts
  BY <1>3 DEF LoopLaneStep, Restarts, Next, Calls
<1>4. CASE ChainAlongside
  BY <1>4 DEF ChainAlongside, Restarts, Next
<1>5. CASE Stop \/ UNCHANGED restartVars
  BY <1>5 DEF Stop, restartVars, Restarts
<1>6. ASSUME NEW r \in Requests, NEW d \in DepositFlags, PushAlongside(r, d)
      PROVE  Restarts
  BY <1>6 DEF PushAlongside, Restarts
<1> QED BY <1>1, <1>2, <1>3, <1>4, <1>5, <1>6 DEF RestartNext

\* A poll leaves the lanes alone, or fills the lane of the call with copies of rows
\* that wait in the table it was given.
LEMMA PollAloneCases ==
    ASSUME Base, NEW k \in Calls, NEW q \in Rows(lastItemId, lastBatchId), PollAlone(k, q)
    PROVE  \/ UNCHANGED lane /\ Goes(k, "sleeping")
           \/ /\ Goes(k, "batching")
              /\ \A l \in Lanes : l # k => lane'[l] = lane[l]
              /\ DOMAIN lane' = Lanes
              /\ lane'[k].pc = "signing" /\ lane'[k].batch = Null
              /\ DOMAIN lane'[k].items \subseteq 1..lastItemId
              /\ lane'[k].items \in [DOMAIN lane'[k].items -> Row]
              /\ \A i \in DOMAIN lane'[k].items :
                    lane'[k].items[i] = q[i] /\ q[i].batch_id = Null
<1> DEFINE ids == Peek(q, BatchSize)
           items == [i \in ids |-> q[i]]
           new == LaneAt("signing", items, Null)
<1>1. CASE UNCHANGED lane /\ Goes(k, "sleeping")
  BY <1>1
<1>2. CASE lane' = [lane EXCEPT ![k] = new] /\ Goes(k, "batching")
  <2>1. ids \subseteq 1..lastItemId /\ \A i \in ids : q[i].batch_id = Null /\ q[i] \in Row
    BY DEF Peek, Pending, Rows
  <2>2. new.pc = "signing" /\ new.batch = Null /\ new.items = items
    BY DEF LaneAt
  <2>3. DOMAIN lane' = Lanes /\ \A l \in Lanes : lane'[l] = IF l = k THEN new ELSE lane[l]
    BY <1>2, Tables
  <2> HIDE DEF ids, new
  <2>4. lane'[k] = new
    BY <2>3 DEF Calls
  <2> QED BY <1>2, <2>1, <2>2, <2>3, <2>4
<1> QED BY <1>1, <1>2, Zenon DEF PollAlone

LEMMA PollAloneType ==
    ASSUME Base, NEW k \in Calls, NEW q \in Rows(lastItemId, lastBatchId), PollAlone(k, q),
           UNCHANGED <<lastItemId, chain>>
    PROVE  LaneTypeOK'
<1>1. CASE UNCHANGED lane
  BY <1>1, LaneKept DEF Base, TypeOK, QueueTypeOK
<1>2. CASE /\ DOMAIN lane' = Lanes
           /\ \A l \in Lanes : l # k => lane'[l] = lane[l]
           /\ lane'[k].pc = "signing" /\ lane'[k].batch = Null
           /\ DOMAIN lane'[k].items \subseteq 1..lastItemId
           /\ lane'[k].items \in [DOMAIN lane'[k].items -> Row]
  BY <1>2 DEF Base, TypeOK, LaneTypeOK, LanePcs
<1> QED BY <1>1, <1>2, PollAloneCases

-----------------------------------------------------------------------------
(* Type correctness *)

LEMMA RestartBase ==
    ASSUME ASSUMED, Base, Restarts
    PROVE  Base'
<1> USE DEF ASSUMED
<1>1. CASE [Next]_vars
  BY <1>1, BaseStep
<1>2. ASSUME NEW b, RecoverFailedBatch(b, TRUE, FALSE), UNCHANGED execVars
      PROVE  Base'
  <2>1. QueueTypeOK' /\ TicketHolds' /\ UNCHANGED <<lastItemId, lastBatchId>>
    BY <1>2, RecoverBatchQueue DEF Base, TypeOK, RecoverFailedBatch
  <2>2. LaneTypeOK'
    BY <1>2, <2>1, LaneKept DEF Base, TypeOK, QueueTypeOK, execVars
  <2> QED BY <1>2, <2>1, <2>2, LoopBase DEF Base, TypeOK, execVars
<1>3. ASSUME NEW k \in Calls, NEW q \in Rows(lastItemId, lastBatchId), PollAlone(k, q),
             QueueTypeOK', TicketHolds', UNCHANGED <<lastItemId, lastBatchId, asideVars>>
      PROVE  Base'
  <2>1. LaneTypeOK'
    BY <1>3, PollAloneType DEF asideVars
  <2> QED BY <1>3, <2>1, LoopBase DEF Base, TypeOK, asideVars
<1>4. ASSUME NEW k \in Calls, Recover, PollAlone(k, ResetRows(queue, batchTx)),
             UNCHANGED asideVars
      PROVE  Base'
  <2>1. QueueTypeOK' /\ TicketHolds' /\ UNCHANGED <<lastItemId, lastBatchId>>
    BY <1>4, RecoverQueue DEF Base, TypeOK, Recover
  <2>2. ResetRows(queue, batchTx) \in Rows(lastItemId, lastBatchId)
    BY Tables, ResetLemma
  <2> QED BY <1>3, <1>4, <2>1, <2>2
<1>5. ASSUME NEW k \in Calls, PollAlone(k, queue), UNCHANGED <<queueVars, asideVars>>
      PROVE  Base'
  <2>1. QueueTypeOK' /\ TicketHolds'
    BY <1>5, StutterQueue DEF Base, TypeOK
  <2> QED BY <1>3, <1>5, <2>1, Tables DEF queueVars
<1>6. ASSUME NEW r \in Requests, NEW d \in DepositFlags, Push(r, d), UNCHANGED execVars
      PROVE  Base'
  <2>1. d \in BOOLEAN
    BY DEF QueueAssumption
  <2>2. QueueTypeOK' /\ TicketHolds'
    BY <1>6, <2>1, PushQueue DEF Base, TypeOK
  <2>3. /\ lastItemId \in Nat /\ lastItemId' \in {lastItemId, lastItemId + 1}
        /\ lastBatchId' = lastBatchId
    BY <1>6 DEF Push, Merge, Insert, Base, TypeOK, QueueTypeOK
  <2>4. LaneTypeOK'
    BY <1>6, <2>3, LaneKept DEF execVars, Base, TypeOK
  <2> QED BY <1>6, <2>2, <2>3, <2>4, LoopBase DEF execVars, Base, TypeOK
<1> QED BY <1>1, <1>2, <1>4, <1>5, <1>6 DEF Restarts

\* Where the calls are.
CallsOK ==
    /\ isRunning \in BOOLEAN /\ hurried \in BOOLEAN
    /\ pc \in [Calls -> Pcs]
    /\ todos \in [Calls -> SUBSET (1..lastBatchId)]

LEMMA BatchIdsGrow ==
    ASSUME Base, [RestartNext]_restartVars
    PROVE  1..lastBatchId \subseteq 1..lastBatchId'
<1>1. lastBatchId \in Nat
  BY Tables
<1>2. ASSUME UNCHANGED lastBatchId
      PROVE  1..lastBatchId \subseteq 1..lastBatchId'
  BY <1>2
<1>3. ASSUME NEW k \in Calls, SignOk(k)
      PROVE  1..lastBatchId \subseteq 1..lastBatchId'
  BY <1>1, <1>3 DEF SignOk, CreateSignedTransaction
<1>4. ASSUME NEW k \in Calls, SignFail(k) \/ LaneStep(k)
      PROVE  UNCHANGED lastBatchId
  BY <1>4, LaneStepCases DEF Calls, SignFail, Leaves, GivesUp, queueVars
<1>5. ASSUME NEW k \in Calls, Start(k) \/ StartReturns(k) \/ CallStep(k)
      PROVE  UNCHANGED lastBatchId
  BY <1>5 DEF Start, StartReturns, CallStep, Recovery, RecoverTurn, LoopDone, WakeUp,
              RecoverFailedBatch, Recover, vars, queueVars
<1>6. CASE Stop \/ ChainAlongside \/ UNCHANGED restartVars
  BY <1>2, <1>6 DEF Stop, ChainAlongside, restartVars, vars, queueVars, ChainStep,
                    ChainExecute, ChainActionError, ChainRefuse, Settle
<1>7. ASSUME NEW r \in Requests, NEW d \in DepositFlags, PushAlongside(r, d)
      PROVE  UNCHANGED lastBatchId
  BY <1>7 DEF PushAlongside, Push, Merge, Insert
<1> QED BY <1>2, <1>3, <1>4, <1>5, <1>6, <1>7 DEF RestartNext, LoopLaneStep

LEMMA CallsStep ==
    ASSUME Base, CallsOK, [RestartNext]_restartVars
    PROVE  CallsOK'
<1>1. 1..lastBatchId \subseteq 1..lastBatchId'
  BY BatchIdsGrow
<1>2. PendingBatchTransactions \subseteq 1..lastBatchId
  BY DEF PendingBatchTransactions, Base, TypeOK, QueueTypeOK
<1>3. \A k \in Calls : \A p \in Pcs : Goes(k, p) => pc' \in [Calls -> Pcs]
  BY DEF CallsOK, Goes
<1>4. CASE UNCHANGED callVars
  BY <1>1, <1>4 DEF CallsOK, callVars
<1>5. ASSUME NEW k \in Calls, NEW p \in Pcs, Goes(k, p), UNCHANGED todos,
             isRunning' \in BOOLEAN, hurried' \in BOOLEAN
      PROVE  CallsOK'
  BY <1>1, <1>3, <1>5 DEF CallsOK
<1>6. {"starting", "recovering", "batching", "sleeping", "over"} \subseteq Pcs
  BY DEF Pcs
<1>7. ASSUME NEW k \in Calls, NEW pending, pending \subseteq 1..lastBatchId,
             RecoverTurn(k, pending)
      PROVE  CallsOK'
  <2>1. ASSUME NEW b \in pending, todos' = [todos EXCEPT ![k] = pending \ {b}],
               Goes(k, "recovering"), UNCHANGED <<isRunning, hurried>>
        PROVE  CallsOK'
    BY <1>1, <1>3, <1>6, <1>7, <2>1 DEF CallsOK
  <2>2. ASSUME isRunning' = TRUE, Goes(k, "batching") \/ Goes(k, "sleeping"),
               UNCHANGED <<todos, hurried>>
        PROVE  CallsOK'
    BY <1>5, <1>6, <2>2 DEF CallsOK
  <2> QED BY <1>7, <2>1, <2>2, Zenon DEF RecoverTurn, PollAlone
<1>8. ASSUME NEW k \in Calls, Recovery(k)
      PROVE  CallsOK'
  BY <1>2, <1>7, <1>8 DEF Recovery, CallsOK
<1>9. ASSUME NEW k \in Calls, LoopDone(k) \/ WakeUp(k)
      PROVE  CallsOK'
  <2>1. /\ Goes(k, "batching") \/ Goes(k, "sleeping") \/ Goes(k, "over")
        /\ UNCHANGED <<isRunning, hurried, todos>>
    BY <1>9, Zenon DEF LoopDone, WakeUp, PollAlone
  <2> QED BY <1>5, <1>6, <2>1 DEF CallsOK
<1>10. ASSUME NEW k \in Calls, Start(k) \/ StartReturns(k)
       PROVE  CallsOK'
  <2>1. hurried' \in BOOLEAN /\ isRunning' \in BOOLEAN
    BY <1>10, Zenon DEF Start, StartReturns, CallsOK
  <2> QED BY <1>5, <1>6, <1>10, <2>1 DEF Start, StartReturns
<1>11. CASE Stop
  BY <1>1, <1>11 DEF Stop, CallsOK
<1> QED BY <1>4, <1>8, <1>9, <1>10, <1>11
        DEF RestartNext, CallStep, LoopLaneStep, Alongside, ChainAlongside, PushAlongside,
            restartVars, callVars

\* Whatever order start() and stop() are called in, and with any number of loops over
\* one queue, the variables keep their types and every request its row.
THEOREM RestartTypes == RestartSpec => [](RestartTypeOK /\ TicketHolds)
<1>1. ASSUMED
  BY QueueAssumption, ExecutorAssumption DEF ASSUMED
<1>2. RestartInit => Base /\ CallsOK
  <2> SUFFICES ASSUME RestartInit PROVE Base /\ CallsOK
    OBVIOUS
  <2>1. Init
    BY DEF RestartInit, Init
  <2> QED BY <1>1, <2>1, BaseInit DEF RestartInit, CallsOK, Pcs
<1>3. Base /\ CallsOK /\ [RestartNext]_restartVars => Base' /\ CallsOK'
  BY <1>1, RestartStepKinds, RestartBase, CallsStep
<1>4. Base /\ CallsOK => RestartTypeOK /\ TicketHolds
  BY DEF Base, CallsOK, RestartTypeOK
<1> QED BY <1>2, <1>3, <1>4, PTL DEF RestartSpec

-----------------------------------------------------------------------------
(* No row names a deleted batch *)

LEMMA RestartOrphans ==
    ASSUME Base, NeverOrphaned, NoBackoff, Restarts
    PROVE  NeverOrphaned'
<1>1. ASSUME NEW k \in Calls, PollAlone(k, queue), UNCHANGED <<queueVars, asideVars>>
      PROVE  NeverOrphaned'
  BY <1>1 DEF queueVars, NeverOrphaned
<1> QED BY <1>1, OrphanStep, OrphanRecover, OrphanReset, OrphanPush DEF Restarts

LEMMA RestartNoBackoff ==
    ASSUME NoRefusals, Base, NoBackoff, Restarts
    PROVE  NoBackoff'
<1>1. CASE UNCHANGED lane
  BY <1>1 DEF NoBackoff
<1>2. ASSUME NEW k \in Calls, NEW q \in Rows(lastItemId, lastBatchId), PollAlone(k, q)
      PROVE  NoBackoff'
  <2>1. ASSUME lane'[k].pc = "signing", \A l \in Lanes : l # k => lane'[l] = lane[l]
        PROVE  NoBackoff'
    BY <2>1 DEF NoBackoff
  <2> QED BY <1>1, <1>2, <2>1, PollAloneCases
<1>3. ResetRows(queue, batchTx) \in Rows(lastItemId, lastBatchId)
  BY Tables, ResetLemma
<1> QED BY <1>1, <1>2, <1>3, NoBackoffStep, Tables DEF Restarts, execVars

\* Even two loops over one queue, which recover each other's batches, leave no row
\* in a batch that is gone.
THEOREM RestartNoOrphans ==
    ASSUME NoRefusals
    PROVE  RestartSpec => []NeverOrphaned
<1>1. RestartInit => NeverOrphaned /\ NoBackoff
  BY IdleFields DEF RestartInit, QueueInit, NeverOrphaned, NoBackoff
<1>2. Base /\ NeverOrphaned /\ NoBackoff /\ [RestartNext]_restartVars
        => NeverOrphaned' /\ NoBackoff'
  BY RestartStepKinds, RestartOrphans, RestartNoBackoff
<1>3. RestartSpec => []Base
  BY RestartTypes, PTL DEF RestartTypeOK, Base
<1> QED BY <1>1, <1>2, <1>3, PTL DEF RestartSpec

-----------------------------------------------------------------------------
(* A successful transfer is paid *)

LEMMA RestartPaid ==
    ASSUME Base, PaidInv, ~ MergeExistingAccounts, Restarts
    PROVE  PaidInv'
<1>1. ASSUME NEW k \in Calls, NEW q \in Rows(lastItemId, lastBatchId), PollAlone(k, q),
             q = queue'
      PROVE  \A l \in Lanes : \A i \in DOMAIN lane'[l].items :
                 \/ i \in DOMAIN lane[l].items /\ lane'[l].items[i] = lane[l].items[i]
                 \/ lane'[l].items[i].amount = queue'[i].amount
  BY <1>1, PollAloneCases
<1>2. ASSUME NEW k \in Calls, Recover, PollAlone(k, ResetRows(queue, batchTx)),
             UNCHANGED asideVars
      PROVE  PaidInv'
  <2>1. queue' = ResetRows(queue, batchTx) /\ queue' \in Rows(lastItemId, lastBatchId)
    BY <1>2, Tables, ResetLemma DEF Recover
  <2> QED BY <1>1, <1>2, <2>1, PaidRecover DEF asideVars
<1>3. ASSUME NEW k \in Calls, PollAlone(k, queue), UNCHANGED <<queueVars, asideVars>>
      PROVE  PaidInv'
  <2>1. UNCHANGED <<queue, batchTx, chain>>
    BY <1>3 DEF queueVars, asideVars
  <2> QED BY <1>1, <1>3, <2>1, Tables, PaidTables DEF SameMoney
<1> QED BY <1>2, <1>3, PaidStep, PaidRecoverBatch, PaidPush DEF Restarts, execVars

\* Without merging, whatever the loops do to each other, a transfer that is reported
\* as successful is in a transaction that the chain has executed.
THEOREM RestartSuccessIsPaid ==
    ASSUME ~ MergeExistingAccounts
    PROVE  RestartSpec => []SuccessMeansPaid
<1>1. RestartInit => PaidInv
  BY IdleFields DEF RestartInit, QueueInit, EmptyFunction, PaidInv, BatchesKnown,
                    RowsPaidByBatch, CopiesCurrent
<1>2. Base /\ PaidInv /\ [RestartNext]_restartVars => PaidInv'
  BY RestartStepKinds, RestartPaid
<1>3. Base /\ PaidInv => SuccessMeansPaid
  BY PaidInvPays
<1>4. RestartSpec => []Base
  BY RestartTypes, PTL DEF RestartTypeOK, Base
<1> QED BY <1>1, <1>2, <1>3, <1>4, PTL DEF RestartSpec

-----------------------------------------------------------------------------
(* What lanes hold, also while loops are in each other's way *)

\* A lane at work belongs to a loop that waits for it.
LEMMA BusyLoop ==
    ASSUME OnlyLoopsHold, NEW k \in Calls, lane[k] # IdleLane
    PROVE  pc[k] = "batching" /\ lane[k].pc # "idle"
  BY DEF OnlyLoopsHold

\* What a step of a lane does to the lanes.
LEMMA LaneAfter ==
    ASSUME Base, NEW k \in Calls, SignOk(k) \/ SignFail(k) \/ LaneStep(k)
    PROVE  /\ lane[k].pc # "idle"
           /\ DOMAIN lane' = Lanes
           /\ \A l \in Calls : l # k => lane'[l] = lane[l]
           /\ \/ lane'[k] = IdleLane
              \/ lane'[k].pc \in {"sending", "backoff"} /\ lane'[k].items = lane[k].items
           /\ UNCHANGED ticket
<1> USE Tables DEF Calls
<1>1. CASE SignOk(k)
  <2> DEFINE new == LaneAt("sending", lane[k].items, lastBatchId + 1)
  <2>1. new.pc = "sending" /\ new.items = lane[k].items
    BY DEF LaneAt
  <2>2. lane' = [lane EXCEPT ![k] = new] /\ lane[k].pc = "signing" /\ UNCHANGED ticket
    BY <1>1 DEF SignOk, Lane, CreateSignedTransaction
  <2> HIDE DEF new
  <2> QED BY <2>1, <2>2
<1>2. ASSUME Return(k), lane[k].pc # "idle", UNCHANGED ticket
      PROVE  /\ DOMAIN lane' = Lanes
             /\ \A l \in Calls : l # k => lane'[l] = lane[l]
             /\ lane'[k] = IdleLane
  BY <1>2 DEF Return
<1>3. CASE SignFail(k)
  BY <1>2, <1>3 DEF SignFail, Lane, queueVars
<1>4. CASE LaneStep(k)
  <2>1. lane[k].pc # "idle"
    BY <1>4, LaneStepCases
  <2>2. CASE Backoff(k) /\ UNCHANGED queueVars
    <3> DEFINE new == LaneAt("backoff", lane[k].items, lane[k].batch)
    <3>1. new.pc = "backoff" /\ new.items = lane[k].items
      BY DEF LaneAt
    <3>2. lane' = [lane EXCEPT ![k] = new] /\ UNCHANGED ticket
      BY <2>2 DEF Backoff, queueVars
    <3> HIDE DEF new
    <3> QED BY <2>1, <3>1, <3>2
  <2>3. CASE Leaves(k) \/ \E S : GivesUp(k, S)
    BY <1>2, <2>1, <2>3 DEF Leaves, GivesUp
  <2> QED BY <1>4, <2>2, <2>3, LaneStepCases
<1> QED BY <1>1, <1>3, <1>4

LEMMA OnlyLoopsHoldStep ==
    ASSUME Base, CallsOK, OnlyLoopsHold, [RestartNext]_restartVars
    PROVE  OnlyLoopsHold'
<1> USE DEF OnlyLoopsHold, CallsOK
<1>1. CASE UNCHANGED <<pc, lane>>
  BY <1>1
<1>2. ASSUME NEW k \in Calls, NEW p, Goes(k, p), UNCHANGED lane,
             pc[k] # "batching" \/ lane[k].pc = "idle"
      PROVE  OnlyLoopsHold'
  BY <1>2 DEF Goes
<1>3. ASSUME NEW k \in Calls, NEW q \in Rows(lastItemId, lastBatchId), PollAlone(k, q),
             pc[k] # "batching"
      PROVE  OnlyLoopsHold'
  <2>1. CASE Goes(k, "batching") /\ lane'[k].pc = "signing"
             /\ \A l \in Lanes : l # k => lane'[l] = lane[l]
    BY <2>1 DEF Goes, Calls
  <2> QED BY <1>2, <1>3, <2>1, PollAloneCases
<1>4. ASSUME NEW k \in Calls, Start(k) \/ StartReturns(k) \/ LoopDone(k)
      PROVE  OnlyLoopsHold'
  BY <1>2, <1>4 DEF Start, StartReturns, LoopDone, NextCall, vars, execVars
<1>5. ASSUME NEW k \in Calls, WakeUp(k)
      PROVE  OnlyLoopsHold'
  BY <1>2, <1>3, <1>5, Tables, Zenon DEF WakeUp
<1>6. ASSUME NEW k \in Calls, NEW pending, RecoverTurn(k, pending), pc[k] # "batching"
      PROVE  OnlyLoopsHold'
  <2>1. ResetRows(queue, batchTx) \in Rows(lastItemId, lastBatchId)
    BY Tables, ResetLemma
  <2> QED BY <1>2, <1>3, <1>6, <2>1, Zenon DEF RecoverTurn, execVars
<1>7. ASSUME NEW k \in Calls, LoopLaneStep(k)
      PROVE  OnlyLoopsHold'
  <2>1. pc' = pc /\ (SignOk(k) \/ SignFail(k) \/ LaneStep(k))
    BY <1>7 DEF LoopLaneStep, Alongside, callVars
  <2>2. pc[k] = "batching"
    BY <2>1, LaneAfter, IdleFields
  <2> QED BY <2>1, <2>2, LaneAfter
<1>8. CASE Stop \/ ChainAlongside \/ UNCHANGED restartVars
  BY <1>1, <1>8 DEF Stop, ChainAlongside, Alongside, restartVars, callVars, vars, execVars,
                    ChainStep, ChainExecute, ChainActionError, ChainRefuse, Settle
<1>9. ASSUME NEW r \in Requests, NEW d \in DepositFlags, PushAlongside(r, d)
      PROVE  OnlyLoopsHold'
  BY <1>1, <1>9 DEF PushAlongside, execVars, callVars
<1> QED BY <1>4, <1>5, <1>6, <1>7, <1>8, <1>9 DEF RestartNext, CallStep, Recovery

\* A push moves no ticket, a poll copies what the tickets name.
LEMMA CopiesHoldStep ==
    ASSUME Base, CopiesHold, [RestartNext]_restartVars
    PROVE  CopiesHold'
<1> USE Tables
<1>1. CASE UNCHANGED <<lane, ticket>>
  BY <1>1 DEF CopiesHold
<1>2. ASSUME NEW k \in Calls, NEW q \in Rows(lastItemId, lastBatchId), PollAlone(k, q),
             SameMoney(queue, q), UNCHANGED ticket
      PROVE  CopiesHold'
  <2>1. ASSUME NEW i \in 1..lastItemId
        PROVE  \A r \in q[i].amount : ticket[r] = i
    <3>1. q[i].amount = queue[i].amount /\ q[i].amount \subseteq Requests
      BY <1>2 DEF SameMoney, Rows, Row
    <3> QED BY <3>1 DEF Base, TicketHolds
  <2>2. CASE /\ \A l \in Lanes : l # k => lane'[l] = lane[l]
             /\ DOMAIN lane'[k].items \subseteq 1..lastItemId
             /\ \A i \in DOMAIN lane'[k].items : lane'[k].items[i] = q[i]
    BY <1>2, <2>1, <2>2 DEF CopiesHold
  <2> QED BY <1>1, <1>2, <2>2, PollAloneCases
<1>3. ASSUME NEW k \in Calls, WakeUp(k) \/ Recovery(k) \/ LoopDone(k)
      PROVE  CopiesHold'
  <2>1. SameMoney(queue, ResetRows(queue, batchTx)) /\ SameMoney(queue, queue)
    BY ResetLemma DEF SameMoney
  <2>2. ResetRows(queue, batchTx) \in Rows(lastItemId, lastBatchId)
    BY ResetLemma
  <2>3. ASSUME NEW pending, RecoverTurn(k, pending)
        PROVE  CopiesHold'
    BY <1>1, <1>2, <2>1, <2>2, <2>3, Zenon DEF RecoverTurn, RecoverFailedBatch, Recover, execVars
  <2>4. CASE WakeUp(k)
    <3>1. UNCHANGED ticket /\ (UNCHANGED lane \/ PollAlone(k, queue))
      BY <2>4, Zenon DEF WakeUp, queueVars
    <3> QED BY <1>1, <1>2, <2>1, <3>1
  <2>5. CASE LoopDone(k)
    BY <1>1, <2>5 DEF LoopDone, vars, execVars, queueVars
  <2> QED BY <1>3, <2>3, <2>4, <2>5 DEF Recovery
<1>4. ASSUME NEW k \in Calls, LoopLaneStep(k)
      PROVE  CopiesHold'
  <2>1. SignOk(k) \/ SignFail(k) \/ LaneStep(k)
    BY <1>4 DEF LoopLaneStep
  <2> QED BY <2>1, LaneAfter, IdleFields DEF CopiesHold, Calls
<1>5. ASSUME NEW k \in Calls, Start(k) \/ StartReturns(k)
      PROVE  CopiesHold'
  BY <1>1, <1>5 DEF Start, StartReturns, vars, execVars, queueVars
<1>6. CASE Stop \/ ChainAlongside \/ UNCHANGED restartVars
  BY <1>1, <1>6 DEF Stop, ChainAlongside, restartVars, vars, execVars, queueVars,
                    ChainStep, ChainExecute, ChainActionError, ChainRefuse, Settle
<1>7. ASSUME NEW r \in Requests, NEW d \in DepositFlags, PushAlongside(r, d)
      PROVE  CopiesHold'
  <2>1. /\ ticket[r] = Null /\ UNCHANGED lane
        /\ \A s \in Requests : ticket[s] # Null => ticket'[s] = ticket[s]
    BY <1>7 DEF PushAlongside, execVars, Push, Merge, Insert, Base, TypeOK, QueueTypeOK
  <2>2. ASSUME NEW l \in Lanes, NEW i \in DOMAIN lane[l].items, NEW s \in lane[l].items[i].amount
        PROVE  ticket'[s] = i
    <3>1. i \in 1..lastItemId /\ s \in Requests
      BY <2>2 DEF Base, TypeOK, LaneTypeOK, Row
    <3>2. ticket[s] = i
      BY <2>2 DEF CopiesHold
    <3> QED BY <2>1, <3>1, <3>2 DEF Null
  <2> QED BY <2>1, <2>2 DEF CopiesHold
<1> QED BY <1>3, <1>4, <1>5, <1>6, <1>7 DEF RestartNext, CallStep

-----------------------------------------------------------------------------
(* Nothing is paid twice by those who wait *)

\* While one call at most is under way, the others' lanes are empty.
LEMMA OtherLanesIdle ==
    ASSUME OnlyLoopsHold, OneUnderWay, NEW k \in Calls, UnderWay(k),
           NEW l \in Calls, l # k
    PROVE  lane[l] = IdleLane
  BY BusyLoop DEF OneUnderWay, UnderWay, Looping

\* A loop is at work: no other call has anything to recover.
LEMMA NothingRecovers ==
    ASSUME OneUnderWay, NEW k \in Calls, pc[k] = "batching", UNCHANGED pc
    PROVE  OneUnderWay' /\ RecoversRefused'
<1>1. \A j \in Calls : pc'[j] # "recovering"
  BY DEF OneUnderWay, UnderWay, Starting, Looping
<1> QED BY <1>1 DEF OneUnderWay, UnderWay, Starting, Looping, RecoversRefused

\* A call that recovers is alone, so that all processing batches are refused ones.
LEMMA PendingRefused ==
    ASSUME Base, OnlyLoopsHold, OneUnderWay, PayersAttended, NEW k \in Calls,
           pc[k] \in {"starting", "recovering"}
    PROVE  /\ \A l \in Calls : lane[l] = IdleLane
           /\ \A b \in PendingBatchTransactions : ~ MayPay(b)
<1>1. UnderWay(k) /\ lane[k] = IdleLane
  BY DEF OnlyLoopsHold, UnderWay, Starting
<1>2. \A l \in Calls : lane[l] = IdleLane
  BY <1>1, OtherLanesIdle
<1>3. IdleLane.batch \notin PendingBatchTransactions
  BY IdleFields DEF PendingBatchTransactions, Base, TypeOK, QueueTypeOK, Null
<1> QED BY <1>2, <1>3 DEF PayersAttended

\* Only the calls move.
LEMMA PatienceCalls ==
    ASSUME Patience, UNCHANGED vars, OneUnderWay', RecoversRefused'
    PROVE  Patience'
<1>1. UNCHANGED <<queue, batchTx, ticket, lane, chain>>
  BY DEF vars, queueVars, execVars
<1> QED BY <1>1 DEF Patience, PaidRowsPinned, OnTheWay, PayersAttended, MayPay,
                    PendingBatchTransactions, SigningUnbatched

LEMMA PatienceCallStep ==
    ASSUME CallsOK, Patience, ~ hurried', NEW k \in Calls,
           Start(k) \/ StartReturns(k) \/ LoopDone(k) \/ Stop
    PROVE  Patience'
<1> USE DEF CallsOK, OneUnderWay, UnderWay, Starting, Looping
<1>1. CASE Start(k)
  <2>1. /\ \A j \in Calls : ~ UnderWay(j)
        /\ pc' = [pc EXCEPT ![k] = "starting"] /\ UNCHANGED vars
    BY <1>1 DEF Start, Goes
  <2>2. OneUnderWay' /\ RecoversRefused'
    BY <2>1 DEF RecoversRefused
  <2> QED BY <2>1, <2>2, PatienceCalls
<1>2. CASE StartReturns(k) \/ LoopDone(k)
  <2>1. /\ \/ pc' = [pc EXCEPT ![k] = "over"]
           \/ pc[k] = "batching" /\ pc' = [pc EXCEPT ![k] = "sleeping"]
        /\ UNCHANGED vars /\ UNCHANGED todos
    BY <1>2, Zenon DEF StartReturns, LoopDone, Goes
  <2>2. OneUnderWay' /\ UNCHANGED <<chain, todos>>
    BY <2>1 DEF Patience, vars, execVars
  <2>3. RecoversRefused'
    BY <2>1, <2>2 DEF Patience, RecoversRefused, MayPay
  <2> QED BY <2>1, <2>2, <2>3, PatienceCalls
<1>3. CASE Stop
  <2>1. UNCHANGED <<vars, pc, todos>> /\ UNCHANGED chain
    BY <1>3 DEF Stop, vars, execVars
  <2>2. OneUnderWay' /\ RecoversRefused'
    BY <2>1 DEF Patience, RecoversRefused, MayPay
  <2> QED BY <2>1, <2>2, PatienceCalls
<1> QED BY <1>1, <1>2, <1>3

\* start() gives back what was refused, and counts it.
LEMMA PatienceRecoverBatch ==
    ASSUME Base, CallsOK, OnlyLoopsHold, Patience, NEW k \in Calls, NEW pending, NEW b \in pending,
           \/ pc[k] = "starting" /\ pending = PendingBatchTransactions
           \/ pc[k] = "recovering" /\ pending = todos[k],
           RecoverFailedBatch(b, TRUE, FALSE), Goes(k, "recovering"),
           todos' = [todos EXCEPT ![k] = pending \ {b}], UNCHANGED execVars
    PROVE  Patience'
<1> USE Tables
<1>1. /\ \A l \in Calls : lane[l] = IdleLane
      /\ \A c \in PendingBatchTransactions : ~ MayPay(c)
  BY PendingRefused DEF Patience
<1>2. \A c \in pending : ~ MayPay(c)
  BY <1>1 DEF Patience, RecoversRefused
<1>3. UNCHANGED <<lane, chain, ticket>>
  BY DEF execVars, RecoverFailedBatch
<1>4. \A c : MayPay(c)' = MayPay(c)
  BY <1>3 DEF MayPay
<1>5. GivenBack(queue, queue', b, {})
  BY RecoveredGivesBack DEF RecoverFailedBatch
<1>6. PaidRowsPinned'
  BY <1>2, <1>3, <1>5, PinnedKept DEF Patience, OnTheWay, GivenBack, MayPay, Live
<1>7. OneUnderWay'
  BY DEF Patience, OneUnderWay, UnderWay, Starting, Looping, Goes, CallsOK
<1>8. PayersAttended'
  <2>1. PendingBatchTransactions' \subseteq PendingBatchTransactions
    BY DEF RecoverFailedBatch, Without, PendingBatchTransactions
  <2> QED BY <1>1, <1>4, <2>1 DEF PayersAttended
<1>9. RecoversRefused'
  <2> SUFFICES ASSUME NEW j \in Calls, pc'[j] = "recovering", NEW c \in todos'[j]
               PROVE  ~ MayPay(c)
    BY <1>4 DEF RecoversRefused
  <2>1. CASE j = k
    BY <1>2, <2>1 DEF CallsOK
  <2>2. CASE j # k
    BY <2>2 DEF Patience, RecoversRefused, Goes, CallsOK
  <2> QED BY <2>1, <2>2
<1>10. SigningUnbatched'
  BY <1>1, <1>3, IdleFields DEF SigningUnbatched
<1> QED BY <1>6, <1>7, <1>8, <1>9, <1>10 DEF Patience

\* A poll puts rows in the lane of the call that no transaction pays.
LEMMA PatiencePoll ==
    ASSUME Base, CallsOK, OnlyLoopsHold, Patience, NEW k \in Calls,
           NEW q \in Rows(lastItemId, lastBatchId), PollAlone(k, q),
           pc[k] \in {"starting", "recovering", "sleeping"},
           queue' = q, UNCHANGED <<chain, ticket, todos>>, PaidRowsPinned',
           PendingBatchTransactions' \subseteq PendingBatchTransactions
    PROVE  Patience'
<1>1. UnderWay(k) /\ lane[k] = IdleLane
  BY DEF OnlyLoopsHold, UnderWay, Starting, Looping
<1>2. \A l \in Calls : lane[l] = IdleLane
  BY <1>1, OtherLanesIdle DEF Patience
<1>3. IdleLane.batch \notin PendingBatchTransactions
  BY IdleFields DEF PendingBatchTransactions, Base, TypeOK, QueueTypeOK, Null
<1>4. \A b : MayPay(b)' = MayPay(b)
  BY DEF MayPay
<1>5. PayersAttended'
  BY <1>2, <1>3, <1>4 DEF Patience, PayersAttended
<1>6. pc' = [pc EXCEPT ![k] = "sleeping"] \/ pc' = [pc EXCEPT ![k] = "batching"]
  BY PollAloneCases DEF Goes
<1>7. OneUnderWay'
  BY <1>1, <1>6 DEF Patience, OneUnderWay, UnderWay, Starting, Looping, CallsOK
<1>8. RecoversRefused'
  BY <1>4, <1>6 DEF Patience, RecoversRefused, CallsOK
<1>9. SigningUnbatched'
  <2>1. CASE UNCHANGED lane
    BY <1>2, <2>1, IdleFields DEF SigningUnbatched
  <2>2. CASE /\ \A l \in Lanes : l # k => lane'[l] = lane[l]
             /\ \A i \in DOMAIN lane'[k].items :
                   lane'[k].items[i] = q[i] /\ q[i].batch_id = Null
    BY <1>2, <2>2, IdleFields DEF SigningUnbatched, Calls
  <2> QED BY <2>1, <2>2, PollAloneCases
<1> QED BY <1>5, <1>7, <1>8, <1>9 DEF Patience

LEMMA PatienceRecovery ==
    ASSUME Base, CallsOK, OnlyLoopsHold, Patience, NEW k \in Calls, Recovery(k)
    PROVE  Patience'
<1> USE Tables
<1>1. PICK pending : /\ RecoverTurn(k, pending)
                     /\ \/ pc[k] = "starting" /\ pending = PendingBatchTransactions
                        \/ pc[k] = "recovering" /\ pending = todos[k]
  BY DEF Recovery
<1>2. CASE \E b \in pending : /\ RecoverFailedBatch(b, TRUE, FALSE)
                              /\ todos' = [todos EXCEPT ![k] = pending \ {b}]
                              /\ Goes(k, "recovering") /\ UNCHANGED execVars
  BY <1>1, <1>2, PatienceRecoverBatch
<1>3. CASE /\ Recover /\ PollAlone(k, ResetRows(queue, batchTx))
           /\ UNCHANGED <<todos, asideVars>>
  <2>1. /\ queue' = ResetRows(queue, batchTx) /\ queue' \in Rows(lastItemId, lastBatchId)
        /\ batchTx' = SuccessfulOnly(batchTx) /\ UNCHANGED <<chain, ticket, todos>>
    BY <1>3, ResetLemma DEF Recover, asideVars
  <2>2. \A b \in PendingBatchTransactions : ~ MayPay(b)
    BY <1>1, PendingRefused DEF Patience
  <2>3. \A i \in 1..lastItemId :
            queue'[i].batch_id # queue[i].batch_id => queue[i].batch_id \in PendingBatchTransactions
    BY <2>1, ResetIds DEF PendingBatchTransactions
  <2>4. PaidRowsPinned'
    BY <2>1, <2>2, <2>3, PinnedKept DEF Patience, OnTheWay, MayPay, Live
  <2>5. PendingBatchTransactions' \subseteq PendingBatchTransactions
    BY <2>1 DEF SuccessfulOnly, PendingBatchTransactions
  <2> QED BY <1>1, <1>3, <2>1, <2>4, <2>5, PatiencePoll
<1> QED BY <1>1, <1>2, <1>3, Zenon DEF RecoverTurn

LEMMA PatienceWakeUp ==
    ASSUME Base, CallsOK, OnlyLoopsHold, Patience, NEW k \in Calls, WakeUp(k)
    PROVE  Patience'
<1>1. UNCHANGED <<queue, batchTx, chain, ticket, todos>> /\ pc[k] = "sleeping"
  BY DEF WakeUp, queueVars, asideVars
<1>2. CASE PollAlone(k, queue)
  BY <1>1, <1>2, Tables, PatiencePoll
     DEF Patience, PaidRowsPinned, OnTheWay, PendingBatchTransactions
<1>3. CASE Goes(k, "over") /\ UNCHANGED lane
  <2>1. UNCHANGED vars
    BY <1>3 DEF WakeUp, asideVars, vars, execVars
  <2>2. OneUnderWay' /\ RecoversRefused'
    BY <1>1, <1>3 DEF Goes, CallsOK, Patience, OneUnderWay, UnderWay, Starting, Looping,
                      RecoversRefused, MayPay
  <2> QED BY <2>1, <2>2, PatienceCalls
<1> QED BY <1>2, <1>3, Zenon DEF WakeUp

\* The rows that are sent were in no batch, so no live transaction pays them.
LEMMA PatienceSignOk ==
    ASSUME Base, OnlyLoopsHold, CopiesHold, Patience, NEW k \in Calls, SignOk(k),
           UNCHANGED <<pc, todos>>
    PROVE  Patience'
<1> USE Tables
<1> DEFINE items == lane[k].items
           b == lastBatchId + 1
           ids == ItemsToProcess(items)
<1>1. /\ lane[k].pc = "signing" /\ ids \subseteq DOMAIN items
      /\ DOMAIN items \subseteq 1..lastItemId
  BY DEF SignOk, Lane, Calls, ItemsToProcess, Base, TypeOK, LaneTypeOK
<1>2. pc[k] = "batching" /\ \A l \in Calls : l # k => lane[l] = IdleLane
  BY <1>1, IdleFields, BusyLoop, OtherLanesIdle DEF Patience, UnderWay, Looping
<1>3. OneUnderWay' /\ RecoversRefused'
  BY <1>2, NothingRecovers DEF Patience
<1>4. /\ queue' = AssignedRows(queue, b, ids) /\ ticket' = ticket
      /\ \A c \in PendingBatchTransactions' : c = b \/ c \in PendingBatchTransactions
  BY DEF SignOk, CreateSignedTransaction, PendingBatchTransactions
<1>5. \A i \in 1..lastItemId :
          queue'[i].batch_id = IF i \in ids THEN b ELSE queue[i].batch_id
  BY <1>4, AssignedIds
<1>6. /\ DOMAIN chain' = DOMAIN chain \cup {b}
      /\ chain'[b].pays = Paid(items)
      /\ \A c \in DOMAIN chain : c # b => chain'[c] = chain[c]
  BY DEF SignOk
<1>7. /\ lane'[k].pc = "sending" /\ lane'[k].batch = b
      /\ \A l \in Calls : l # k => lane'[l] = lane[l]
  BY DEF SignOk, LaneAt, Calls
<1>8. DOMAIN chain \subseteq 1..lastBatchId /\ lastBatchId \in Nat
  BY DEF Base, TypeOK, ChainTypeOK
<1>9. \A i \in ids : queue[i].batch_id = Null
  BY <1>1 DEF Patience, SigningUnbatched
<1>10. ASSUME NEW r \in Paid(items)
       PROVE  ticket[r] \in ids
  <2>1. PICK i \in ids : r \in items[i].amount
    BY DEF Paid
  <2> QED BY <1>1, <2>1 DEF CopiesHold, Calls
<1> HIDE DEF ids
<1>11. PaidRowsPinned'
  <2> SUFFICES ASSUME NEW r \in Requests, NEW c \in OnTheWay(r)'
               PROVE  ticket[r] # Null /\ queue'[ticket[r]].batch_id = c
    BY <1>4 DEF PaidRowsPinned
  <2>1. CASE c = b
    <3>1. ticket[r] \in ids
      BY <1>6, <1>10, <2>1 DEF OnTheWay
    <3> QED BY <1>1, <1>5, <2>1, <3>1 DEF Null
  <2>2. CASE c # b
    <3>1. c \in OnTheWay(r) /\ c # Null
      BY <1>6, <1>8, <2>2 DEF OnTheWay, Null
    <3>2. ticket[r] # Null /\ queue[ticket[r]].batch_id = c
      BY <3>1 DEF Patience, PaidRowsPinned
    <3>3. ticket[r] \in 1..lastItemId /\ ticket[r] \notin ids
      BY <1>9, <3>1, <3>2 DEF Base, TypeOK, QueueTypeOK, Null
    <3> QED BY <1>5, <3>2, <3>3
  <2> QED BY <2>1, <2>2
<1>12. PayersAttended'
  <2> SUFFICES ASSUME NEW c \in PendingBatchTransactions', MayPay(c)', c # b
               PROVE  FALSE
    BY <1>7 DEF PayersAttended
  <2>1. c \in PendingBatchTransactions /\ MayPay(c)
    BY <1>4, <1>6 DEF MayPay
  <2>2. PICK l \in Calls : lane[l].batch = c
    BY <2>1 DEF Patience, PayersAttended
  <2>3. lane[l].batch = Null
    BY <1>1, <1>2, IdleFields DEF Base, TypeOK, LaneTypeOK, Calls
  <2> QED BY <2>1, <2>2, <2>3 DEF PendingBatchTransactions, Base, TypeOK, QueueTypeOK, Null
<1>13. SigningUnbatched'
  BY <1>2, <1>7, IdleFields DEF SigningUnbatched
<1> QED BY <1>3, <1>11, <1>12, <1>13 DEF Patience

\* The lane returns or backs off: rows leave only a refused batch, and what is decided
\* is written before the lane is empty.
LEMMA PatienceLaneStep ==
    ASSUME "network" \notin Faults, Base, OnlyLoopsHold, Patience, NEW k \in Calls,
           SignFail(k) \/ LaneStep(k), UNCHANGED <<pc, todos>>
    PROVE  Patience'
<1> USE Tables
<1> DEFINE b == lane[k].batch
<1>1. /\ lane[k].pc # "idle" /\ UNCHANGED ticket
      /\ \A l \in Calls : l # k => lane'[l] = lane[l]
      /\ lane'[k].pc # "signing"
  BY LaneAfter, IdleFields
<1>2. pc[k] = "batching" /\ \A l \in Calls : l # k => lane[l] = IdleLane
  BY <1>1, IdleFields, BusyLoop, OtherLanesIdle DEF Patience, UnderWay, Looping
<1>3. OneUnderWay' /\ RecoversRefused'
  BY <1>2, NothingRecovers DEF Patience
<1>4. SigningUnbatched'
  BY <1>1, <1>2, IdleFields DEF SigningUnbatched
<1>5. UNCHANGED chain
  BY LaneStepCases DEF Calls, SignFail, GivesUp, Leaves, Return, Backoff
<1>6. ASSUME \A i \in 1..lastItemId :
                 queue'[i].batch_id # queue[i].batch_id =>
                     queue[i].batch_id = b /\ ~ MayPay(b),
             lane'[k].batch = b
               \/ \A c \in PendingBatchTransactions' : c = b => ~ MayPay(c),
             PendingBatchTransactions' \subseteq PendingBatchTransactions
      PROVE  Patience'
  <2>1. PaidRowsPinned'
    BY <1>1, <1>5, <1>6, PinnedKept DEF Patience, OnTheWay, MayPay, Live
  <2>2. PayersAttended'
    <3> SUFFICES ASSUME NEW c \in PendingBatchTransactions', MayPay(c)
                 PROVE  \E l \in Calls : lane'[l].batch = c
      BY <1>5 DEF PayersAttended, MayPay
    <3>1. PICK l \in Calls : lane[l].batch = c
      BY <1>6 DEF Patience, PayersAttended
    <3> QED BY <1>1, <1>6, <3>1
  <2> QED BY <1>3, <1>4, <2>1, <2>2 DEF Patience
<1>7. CASE SignFail(k)
  <2>1. UNCHANGED <<queue, batchTx>> /\ b = Null
    BY <1>7 DEF SignFail, Lane, queueVars, Base, TypeOK, LaneTypeOK
  <2> QED BY <1>6, <2>1 DEF PendingBatchTransactions, Base, TypeOK, QueueTypeOK, Null
<1>8. CASE LaneStep(k)
  <2>1. ASSUME SameBatches(queue, queue'),
               \/ batchTx' = Without(batchTx, b)
               \/ UNCHANGED batchTx /\ ~ MayPay(b)
        PROVE  Patience'
    BY <1>6, <2>1 DEF SameBatches, Without, PendingBatchTransactions
  <2>2. CASE RespondSuccess(k) /\ Leaves(k)
    BY <1>6, <2>2 DEF Leaves, SameBatches, RespondSuccess, MarkBatchSuccess,
                      PendingBatchTransactions
  <2>3. ASSUME NEW S, GivesUp(k, S), ~ MayPay(b)
        PROVE  Patience'
    BY <1>6, <2>3 DEF GivesUp, GivenBack, Without, PendingBatchTransactions
  <2>4. CASE (RespondActionError(k) \/ RespondIndexOutOfRange(k) \/ RespondInvalidTx(k))
             /\ \E S : GivesUp(k, S)
    BY <2>3, <2>4
       DEF RespondActionError, RespondIndexOutOfRange, RespondInvalidTx, Answered, MayPay
  <2>5. ~ NetworkError(k)
    BY DEF NetworkError
  <2>6. CASE RespondUnknownFailure(k) /\ Leaves(k) /\ UNCHANGED queueVars
    BY <2>1, <2>6 DEF RespondUnknownFailure, Answered, MayPay, Leaves, queueVars
  <2>7. CASE Backoff(k) /\ UNCHANGED queueVars
    <3>1. lane'[k].batch = b /\ UNCHANGED <<queue, batchTx>>
      BY <2>7 DEF Backoff, LaneAt, queueVars, Calls
    <3> QED BY <1>6, <3>1 DEF PendingBatchTransactions
  <2>8. CASE BackoffDone(k) /\ Leaves(k) /\ batchTx' = Without(batchTx, b)
    BY <2>1, <2>8 DEF Leaves
  <2> QED BY <1>8, <2>2, <2>4, <2>5, <2>6, <2>7, <2>8, LaneStepCases DEF Calls
<1> QED BY <1>7, <1>8

\* What the chain decides, it decides once.
LEMMA PatienceChain ==
    ASSUME Base, Patience, ChainAlongside
    PROVE  Patience'
<1>1. PICK b, outcome, index : Settle(b, outcome, index)
  BY DEF ChainAlongside, ChainStep, ChainExecute, ChainActionError, ChainRefuse
<1>2. UNCHANGED <<queue, batchTx, ticket, lane, pc, todos>>
  BY <1>1 DEF Settle, queueVars, ChainAlongside, Alongside, callVars
<1>3. /\ DOMAIN chain' = DOMAIN chain
      /\ \A c \in DOMAIN chain : /\ chain'[c].pays = chain[c].pays
                                 /\ chain'[c].state \in Live => chain[c].state \in Live
  BY <1>1 DEF Settle, Live, Base, TypeOK, ChainTypeOK, Transaction
<1>4. \A r \in Requests : OnTheWay(r)' \subseteq OnTheWay(r)
  BY <1>3 DEF OnTheWay, Live
<1>5. \A c : MayPay(c)' => MayPay(c)
  BY <1>3 DEF MayPay, Live
<1>6. PaidRowsPinned'
  BY <1>2, <1>4, PinnedKept DEF Patience
<1> QED BY <1>2, <1>5, <1>6
        DEF Patience, OneUnderWay, UnderWay, Starting, Looping, PayersAttended,
            RecoversRefused, SigningUnbatched, PendingBatchTransactions

LEMMA PatiencePush ==
    ASSUME Base, Patience, NEW r \in Requests, NEW d \in DepositFlags, PushAlongside(r, d)
    PROVE  Patience'
<1> USE Tables
<1>1. ticket[r] = Null /\ UNCHANGED <<batchTx, chain, lane, pc, todos>>
  BY DEF PushAlongside, Push, Merge, Insert, execVars, callVars
<1>2. \A s \in Requests : ticket[s] # Null => ticket'[s] = ticket[s]
  BY <1>1 DEF PushAlongside, Push, Merge, Insert, Base, TypeOK, QueueTypeOK
<1>3. \A i \in 1..lastItemId : queue'[i].batch_id = queue[i].batch_id
  <2>1. ASSUME NEW j \in Mergeable(Receiver[r]), Merge(r, j, d)
        PROVE  \A i \in 1..lastItemId : queue'[i].batch_id = queue[i].batch_id
    BY <2>1 DEF Merge, MergedRows, Update, Rows, Row
  <2>2. ASSUME Insert(r, d)
        PROVE  \A i \in 1..lastItemId : queue'[i] = queue[i]
    BY <2>2 DEF Insert
  <2> QED BY <2>1, <2>2 DEF PushAlongside, Push
<1>4. PaidRowsPinned'
  BY <1>1, <1>2, <1>3, PinnedKept DEF Patience, OnTheWay
<1>5. SigningUnbatched'
  <2>1. \A l \in Calls : DOMAIN lane[l].items \subseteq 1..lastItemId
    BY DEF Base, TypeOK, LaneTypeOK, Calls
  <2> QED BY <1>1, <1>3, <2>1 DEF Patience, SigningUnbatched
<1> QED BY <1>1, <1>4, <1>5
        DEF Patience, OneUnderWay, UnderWay, Starting, Looping, PayersAttended, MayPay,
            RecoversRefused, PendingBatchTransactions

LEMMA PatienceStep ==
    ASSUME "network" \notin Faults, Base, CallsOK, OnlyLoopsHold, CopiesHold,
           hurried \/ Patience, [RestartNext]_restartVars
    PROVE  hurried' \/ Patience'
<1>1. CASE hurried
  <2>1. hurried' = hurried \/ \E k \in Calls : Start(k)
    BY DEF RestartNext, StartReturns, CallStep, Recovery, RecoverTurn, LoopDone, WakeUp,
           LoopLaneStep, Alongside, callVars, Stop, ChainAlongside, PushAlongside,
           restartVars
  <2> QED BY <1>1, <2>1 DEF Start
<1>2. CASE Patience /\ ~ hurried'
  <2> USE <1>2
  <2>1. ASSUME NEW k \in Calls, Start(k) \/ StartReturns(k) \/ LoopDone(k) \/ Stop
        PROVE  Patience'
    BY <2>1, PatienceCallStep
  <2>2. ASSUME NEW k \in Calls, CallStep(k)
        PROVE  Patience'
    BY <2>1, <2>2, PatienceRecovery, PatienceWakeUp DEF CallStep
  <2>3. ASSUME NEW k \in Calls, LoopLaneStep(k)
        PROVE  Patience'
    <3>1. UNCHANGED <<pc, todos>> /\ (SignOk(k) \/ SignFail(k) \/ LaneStep(k))
      BY <2>3 DEF LoopLaneStep, Alongside, callVars
    <3> QED BY <3>1, PatienceSignOk, PatienceLaneStep
  <2>4. CASE ChainAlongside
    BY <2>4, PatienceChain
  <2>5. ASSUME NEW r \in Requests, NEW d \in DepositFlags, PushAlongside(r, d)
        PROVE  Patience'
    BY <2>5, PatiencePush
  <2>6. CASE Stop
    <3>1. PICK k \in Calls : TRUE
      BY ExecutorAssumption DEF ExecutorAssumption, Calls, Lanes
    <3> QED BY <2>1, <2>6, <3>1
  <2>7. CASE UNCHANGED restartVars
    <3>1. UNCHANGED <<pc, todos, chain>> /\ UNCHANGED vars
      BY <2>7 DEF restartVars, callVars, vars, execVars
    <3>2. OneUnderWay' /\ RecoversRefused'
      BY <3>1 DEF Patience, OneUnderWay, UnderWay, Starting, Looping, RecoversRefused, MayPay
    <3> QED BY <3>1, <3>2, PatienceCalls
  <2> QED BY <2>1, <2>2, <2>3, <2>4, <2>5, <2>6, <2>7 DEF RestartNext
<1> QED BY <1>1, <1>2

\* While every start() waits for the loops before it, one call is at work, the rows a
\* live transaction pays stay in its batch, and recover() finds nothing that may still
\* be paid: LoopDone waits for the answers that the lanes wait for.
THEOREM PatientInvariant ==
    ASSUME "network" \notin Faults
    PROVE  RestartSpec => []PatientInv
<1>1. RestartInit => PatientInv
  <2> SUFFICES ASSUME RestartInit PROVE PatientInv
    OBVIOUS
  <2>1. /\ \A k \in Calls : pc[k] = "uncalled"
        /\ \A k \in Lanes : lane[k] = IdleLane
        /\ DOMAIN chain = {} /\ DOMAIN batchTx = {}
    BY DEF RestartInit, EmptyFunction, QueueInit, Calls
  <2>2. OnlyLoopsHold /\ CopiesHold /\ SigningUnbatched
    BY <2>1, IdleFields DEF OnlyLoopsHold, CopiesHold, SigningUnbatched, Calls
  <2>3. OneUnderWay /\ RecoversRefused /\ PaidRowsPinned /\ PayersAttended
    BY <2>1 DEF OneUnderWay, UnderWay, Starting, Looping, RecoversRefused,
                PaidRowsPinned, OnTheWay, PayersAttended, PendingBatchTransactions
  <2> QED BY <2>2, <2>3 DEF PatientInv, Patience
<1>2. Base /\ CallsOK /\ PatientInv /\ [RestartNext]_restartVars => PatientInv'
  BY OnlyLoopsHoldStep, CopiesHoldStep, PatienceStep DEF PatientInv
<1>3. RestartSpec => [](Base /\ CallsOK)
  <2>1. RestartTypeOK /\ TicketHolds => Base /\ CallsOK
    BY DEF Base, CallsOK, RestartTypeOK
  <2> QED BY <2>1, RestartTypes, PTL
<1> QED BY <1>1, <1>2, <1>3, PTL DEF RestartSpec

\* stop() and a patient start() pay nothing twice, for any number of restarts, of
\* requests and of retries, with merging or without.
THEOREM RestartPaysOnce ==
    ASSUME "network" \notin Faults
    PROVE  RestartSpec => []PatientRestartPaysOnce
<1>1. PatientInv => PatientRestartPaysOnce
  BY DEF PatientInv, Patience, PaidRowsPinned, PatientRestartPaysOnce, AtMostOnce,
         Payments, Executed, OnTheWay
<1> QED BY <1>1, PatientInvariant, PTL
=============================================================================
