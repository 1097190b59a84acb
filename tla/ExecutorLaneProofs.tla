------------------------- MODULE ExecutorLaneProofs -------------------------
(***************************************************************************)
(* Rows, lanes and batches fit together (LaneInv), whatever fails, crashes *)
(* or is unstalled; and what follows for a transfer that is successful or  *)
(* stalled.                                                                *)
(***************************************************************************)
EXTENDS ExecutorProofs, WellFoundedInduction

-----------------------------------------------------------------------------
(* What the answers do to the rows *)

\* Every row stays in its batch, with its retries.
SameBatches(q, p) ==
    /\ DOMAIN p = DOMAIN q
    /\ \A i \in DOMAIN q : /\ p[i].batch_id = q[i].batch_id
                           /\ p[i].retry_count = q[i].retry_count
                           /\ p[i].is_stalled = q[i].is_stalled

\* The rows of batch b are free again, a retry is counted, and those in S and all
\* free rows that have no retry left are stalled.
GivenBack(q, p, b, S) ==
    /\ DOMAIN p = DOMAIN q
    /\ \A i \in DOMAIN q :
          /\ p[i].batch_id = IF q[i].batch_id = b THEN Null ELSE q[i].batch_id
          /\ p[i].retry_count = IF q[i].batch_id = b THEN q[i].retry_count + 1
                                ELSE q[i].retry_count
          /\ p[i].is_stalled = (\/ q[i].is_stalled
                                \/ i \in S
                                \/ p[i].batch_id = Null /\ p[i].retry_count > MaxRetries)

\* A row that has one more retry, in one update.
LEMMA OneRetried ==
    ASSUME NEW row \in Row, NEW new, new = [row EXCEPT !.batch_id = Null, !.retry_count = @ + 1]
    PROVE  /\ new.batch_id = Null
           /\ new.retry_count = row.retry_count + 1
           /\ new.is_stalled = row.is_stalled
           /\ new.amount = row.amount
  BY DEF Row

LEMMA OneCapped ==
    ASSUME NEW row \in Row, NEW new, new = [row EXCEPT !.is_stalled = TRUE]
    PROVE  /\ new.batch_id = row.batch_id
           /\ new.retry_count = row.retry_count
           /\ new.is_stalled = TRUE
           /\ new.amount = row.amount
  BY DEF Row

\* recoverFailedBatch, the retry counted.
LEMMA RetriedGivesBack ==
    ASSUME NEW n \in Nat, NEW m \in Nat, NEW q \in Rows(n, m), NEW b
    PROVE  GivenBack(q, CappedRows(RetriedRows(q, b)), b, {})
<1> DEFINE p == RetriedRows(q, b)
           c == CappedRows(p)
<1>1. p \in Rows(n, m) /\ q \in Rows(n, m)
  BY RetriedLemma
<1>2. DOMAIN q = 1..n /\ DOMAIN p = 1..n
  BY <1>1 DEF Rows
<1>3. ASSUME NEW i \in 1..n
      PROVE  /\ p[i].batch_id = IF q[i].batch_id = b THEN Null ELSE q[i].batch_id
             /\ p[i].retry_count = IF q[i].batch_id = b THEN q[i].retry_count + 1
                                   ELSE q[i].retry_count
             /\ p[i].is_stalled = q[i].is_stalled
  <2>1. p[i] = IF q[i].batch_id = b
               THEN [q[i] EXCEPT !.batch_id = Null, !.retry_count = @ + 1] ELSE q[i]
    BY <1>2, Zenon DEF RetriedRows, Update, Members
  <2>2. q[i] \in Row
    BY DEF Rows
  <2> HIDE DEF p
  <2> QED BY <2>1, <2>2, OneRetried
<1> HIDE DEF p
<1>4. DOMAIN c = 1..n
  BY <1>2 DEF CappedRows, Update
<1>5. ASSUME NEW i \in 1..n
      PROVE  /\ c[i].batch_id = p[i].batch_id
             /\ c[i].retry_count = p[i].retry_count
             /\ c[i].is_stalled = (p[i].is_stalled \/ (p[i].batch_id = Null /\ p[i].retry_count > MaxRetries))
  <2>1. c[i] = IF p[i].batch_id = Null /\ p[i].retry_count > MaxRetries
               THEN [p[i] EXCEPT !.is_stalled = TRUE] ELSE p[i]
    BY <1>2, Zenon DEF CappedRows, Update, Spent
  <2>2. p[i] \in Row
    BY <1>1 DEF Rows
  <2>3. p[i].is_stalled \in BOOLEAN
    BY <2>2 DEF Row
  <2> HIDE DEF c
  <2> QED BY <2>1, <2>2, <2>3, OneCapped
<1> HIDE DEF c
<1>6. GivenBack(q, c, b, {})
  BY <1>2, <1>3, <1>4, <1>5 DEF GivenBack
<1> QED BY <1>6 DEF c, p

\* An error message changes nothing that counts.
LEMMA ToldKeeps ==
    ASSUME NEW n \in Nat, NEW m \in Nat, NEW q \in Rows(n, m), NEW b
    PROVE  SameBatches(q, ToldRows(q, b))
  BY DEF SameBatches, ToldRows, Update, Rows, Row

LEMMA DepositedKeeps ==
    ASSUME NEW n \in Nat, NEW m \in Nat, NEW q \in Rows(n, m), NEW b
    PROVE  SameBatches(q, DepositedRows(q, b))
  BY DEF SameBatches, DepositedRows, Update, Rows, Row

\* An error message, then the retry.
LEMMA RecoveredGivesBack ==
    ASSUME NEW n \in Nat, NEW m \in Nat, NEW q \in Rows(n, m), NEW b
    PROVE  GivenBack(q, RecoveredRows(q, b, TRUE, FALSE), b, {})
<1> DEFINE told == ToldRows(q, b)
<1>1. told \in Rows(n, m) /\ SameBatches(q, told)
  BY ToldLemma, ToldKeeps
<1>2. RecoveredRows(q, b, TRUE, FALSE) = CappedRows(RetriedRows(told, b))
  BY DEF RecoveredRows
<1> HIDE DEF told
<1>3. GivenBack(told, CappedRows(RetriedRows(told, b)), b, {})
  BY <1>1, RetriedGivesBack
<1> QED BY <1>1, <1>2, <1>3 DEF GivenBack, SameBatches

\* The failing item is marked, then the retry of the batch.
LEMMA MarkedGivesBack ==
    ASSUME NEW n \in Nat, NEW m \in Nat, NEW q \in Rows(n, m), NEW b, NEW item
    PROVE  GivenBack(q, RecoveredRows(StalledRows(q, item), b, FALSE, FALSE), b, {item})
<1> DEFINE marked == StalledRows(q, item)
<1>1. marked \in Rows(n, m) /\ q \in Rows(n, m)
  BY StalledLemma
<1>2. DOMAIN q = 1..n /\ DOMAIN marked = 1..n
  BY <1>1 DEF Rows
<1>3. ASSUME NEW i \in 1..n
      PROVE  /\ marked[i].batch_id = q[i].batch_id
             /\ marked[i].retry_count = q[i].retry_count
             /\ marked[i].is_stalled = (q[i].is_stalled \/ i = item)
  <2>1. marked[i] = IF i = item
                    THEN [q[i] EXCEPT !.is_stalled = TRUE, !.error_message = TRUE] ELSE q[i]
    BY <1>2, Zenon DEF StalledRows, Update
  <2>2. q[i] \in Row /\ q[i].is_stalled \in BOOLEAN
    BY DEF Rows, Row
  <2> HIDE DEF marked
  <2> QED BY <2>1, <2>2 DEF Row
<1>4. RecoveredRows(marked, b, FALSE, FALSE) = CappedRows(RetriedRows(marked, b))
  BY DEF RecoveredRows
<1> HIDE DEF marked
<1>5. GivenBack(marked, CappedRows(RetriedRows(marked, b)), b, {})
  BY <1>1, RetriedGivesBack
<1>6. GivenBack(q, CappedRows(RetriedRows(marked, b)), b, {item})
  BY <1>2, <1>3, <1>5 DEF GivenBack
<1> QED BY <1>4, <1>6 DEF marked

\* The lane returns and its batch is given up.
GivesUp(l, S) ==
    /\ Return(l)
    /\ GivenBack(queue, queue', lane[l].batch, S)
    /\ batchTx' = Without(batchTx, lane[l].batch)
    /\ UNCHANGED <<lastItemId, lastBatchId, ticket>>

\* The lane returns and its rows stay where they are.
Leaves(l) ==
    /\ Return(l)
    /\ SameBatches(queue, queue')
    /\ UNCHANGED <<lastItemId, lastBatchId, ticket>>

\* What the code does with an answer, seen from the rows.
LEMMA LaneStepCases ==
    ASSUME Base, NEW l \in Lanes, LaneStep(l)
    PROVE  /\ lane[l].pc \in {"sending", "backoff"}
           /\ \/ RespondSuccess(l) /\ Leaves(l)
              \/ RespondActionError(l)
                 /\ GivesUp(l, {ItemAt(lane[l].items, chain[lane[l].batch].at)})
              \/ (RespondIndexOutOfRange(l) \/ RespondInvalidTx(l) \/ NetworkError(l))
                 /\ GivesUp(l, {})
              \/ RespondUnknownFailure(l) /\ Leaves(l) /\ UNCHANGED queueVars
              \/ Backoff(l) /\ UNCHANGED queueVars
              \/ BackoffDone(l) /\ Leaves(l) /\ batchTx' = Without(batchTx, lane[l].batch)
<1>1. CASE RespondSuccess(l)
  BY <1>1, Tables, DepositedKeeps DEF RespondSuccess, MarkBatchSuccess, Leaves, Answered, Lane
<1>2. CASE RespondActionError(l)
  <2> DEFINE b == lane[l].batch
             item == ItemAt(lane[l].items, chain[b].at)
  <2>1. queue' = RecoveredRows(StalledRows(queue, item), b, FALSE, FALSE)
    BY <1>2 DEF RespondActionError
  <2> HIDE DEF item
  <2>2. GivenBack(queue, queue', b, {item})
    BY <2>1, Tables, MarkedGivesBack
  <2>3. GivesUp(l, {item})
    BY <1>2, <2>2 DEF RespondActionError, GivesUp
  <2> QED BY <1>2, <2>3 DEF RespondActionError, Answered, Lane, item
<1>3. CASE RespondIndexOutOfRange(l)
  BY <1>3, Tables, RecoveredGivesBack
     DEF RespondIndexOutOfRange, RecoverFailedBatch, GivesUp, Answered, Lane
<1>4. CASE RespondInvalidTx(l)
  BY <1>4, Tables, RecoveredGivesBack
     DEF RespondInvalidTx, RecoverFailedBatch, GivesUp, Answered, Lane
<1>5. CASE RespondUnknownFailure(l)
  BY <1>5 DEF RespondUnknownFailure, Leaves, SameBatches, queueVars, Answered, Lane
<1>6. CASE NetworkError(l)
  BY <1>6, Tables, RecoveredGivesBack DEF NetworkError, RecoverFailedBatch, GivesUp, Lane
<1>7. CASE Backoff(l)
  BY <1>7 DEF Backoff, queueVars, Lane
<1>8. CASE BackoffDone(l)
  <2>1. queue' = ToldRows(queue, lane[l].batch)
    BY <1>8 DEF BackoffDone, RecoverFailedBatch, RecoveredRows
  <2>2. SameBatches(queue, queue')
    BY <2>1, Tables, ToldKeeps
  <2> QED BY <1>8, <2>2 DEF BackoffDone, RecoverFailedBatch, Leaves, Lane
<1> QED BY <1>1, <1>2, <1>3, <1>4, <1>5, <1>6, <1>7, <1>8 DEF LaneStep

-----------------------------------------------------------------------------
(* Rows, lanes and batches fit together: one step per action *)

\* A lane at work is in an iteration, which leaves nothing to recover.
LEMMA LaneBusy ==
    ASSUME LaneInv, NEW l \in Lanes, lane[l].pc # "idle"
    PROVE  phase = "batching" /\ todo = {}
  BY IdleFields DEF LaneInv, OneIteration, RecoveryExact

\* One lane moves; it keeps what it holds, or lets go of it.
LEMMA LaneMovesOn ==
    ASSUME Base, LaneInv, NEW l \in Lanes, lane[l].pc # "idle", NEW new,
           lane' = [lane EXCEPT ![l] = new],
           \/ new = IdleLane
           \/ new.pc # "idle" /\ new.items = lane[l].items /\ new.batch = lane[l].batch,
           UNCHANGED <<phase, todo, ticket>>,
           \A i \in DOMAIN queue : queue'[i].batch_id \in {queue[i].batch_id, Null},
           \A c : Succeeded(c)' => /\ new.batch # c
                                   /\ \A m \in Lanes : m # l => lane[m].batch # c
    PROVE  LaneInv'
<1>0. DOMAIN IdleLane.items = {} /\ IdleLane.batch = Null
  BY IdleFields
<1>1. \A m \in Lanes : lane'[m] = IF m = l THEN new ELSE lane[m]
  BY Tables
<1>2. phase = "batching" /\ todo = {}
  BY LaneBusy
<1>3. OneIteration' /\ RecoveryExact'
  BY <1>1, <1>2 DEF LaneInv, OneIteration, RecoveryExact
<1>4. LanesApart'
  BY <1>1, <1>0 DEF LaneInv, LanesApart
<1>5. LanesOwnRows'
  <2> SUFFICES ASSUME NEW m \in Lanes, NEW i \in DOMAIN lane'[m].items
               PROVE  queue'[i].batch_id \in {Null, lane'[m].batch}
    BY DEF LanesOwnRows
  <2>1. DOMAIN IdleLane.items = {}
    BY IdleFields
  <2>2. i \in DOMAIN lane[m].items
    BY <1>0, <1>1
  <2>3. i \in DOMAIN queue /\ queue[i].batch_id \in {Null, lane[m].batch}
    BY <2>2, Tables DEF LaneInv, LanesOwnRows, Base, TypeOK, LaneTypeOK
  <2> QED BY <1>1, <2>1, <2>3
<1>6. LanesUndecided'
  <2> SUFFICES ASSUME NEW m \in Lanes, NEW c, c = lane'[m].batch
               PROVE  ~ Succeeded(c)'
    BY DEF LanesUndecided, Succeeded
  <2> QED BY <1>1
<1>7. CopiesHold'
  BY <1>0, <1>1 DEF LaneInv, CopiesHold
<1> QED BY <1>3, <1>4, <1>5, <1>6, <1>7 DEF LaneInv

\* The lane returns, with rows freed or left, and no other batch has succeeded.
LEMMA LaneLetsGo ==
    ASSUME Base, LaneInv, NEW l \in Lanes, lane[l].pc # "idle", Return(l), ticket' = ticket,
           \A i \in DOMAIN queue : queue'[i].batch_id \in {queue[i].batch_id, Null},
           \A b : Succeeded(b)' => Succeeded(b) \/ b = lane[l].batch,
           ~ Succeeded(Null)'
    PROVE  LaneInv'
<1>1. DOMAIN IdleLane.items = {} /\ IdleLane.batch = Null
  BY IdleFields
<1>2. \A c : Succeeded(c)' => \A m \in Lanes : m # l => lane[m].batch # c
  <2> SUFFICES ASSUME NEW c, Succeeded(c)', NEW m \in Lanes, m # l
               PROVE  lane[m].batch # c
    OBVIOUS
  <2>1. c # Null
    OBVIOUS
  <2>2. CASE Succeeded(c)
    BY <2>2 DEF LaneInv, LanesUndecided
  <2>3. CASE c = lane[l].batch
    BY <2>1, <2>3 DEF LaneInv, LanesApart
  <2> QED BY <2>2, <2>3
<1>3. UNCHANGED <<phase, todo, ticket>> /\ lane' = [lane EXCEPT ![l] = IdleLane]
  BY DEF Return
<1> QED BY <1>1, <1>2, <1>3, LaneMovesOn

LEMMA LaneInvLaneStep ==
    ASSUME Base, LaneInv, Base', NEW l \in Lanes, LaneStep(l)
    PROVE  LaneInv'
<1> DEFINE b == lane[l].batch
<1>1. lane[l].pc \in {"sending", "backoff"} /\ b # Null
  <2>1. lane[l].pc \in {"sending", "backoff"}
    BY LaneStepCases
  <2> QED BY <2>1 DEF Base, TypeOK, LaneTypeOK, ChainTypeOK, Null
<1>2. ~ Succeeded(Null)'
  BY DEF Succeeded, Base, TypeOK, QueueTypeOK, Null
<1>3. CASE RespondSuccess(l) /\ Leaves(l)
  <2>1. \A c : Succeeded(c)' => Succeeded(c) \/ c = b
    BY <1>3 DEF RespondSuccess, MarkBatchSuccess, Succeeded
  <2> QED BY <1>1, <1>2, <1>3, <2>1, LaneLetsGo DEF Leaves, SameBatches
<1>4. ASSUME NEW S, GivesUp(l, S) PROVE LaneInv'
  <2>1. \A c : Succeeded(c)' => Succeeded(c)
    BY <1>4 DEF GivesUp, Without, Succeeded
  <2> QED BY <1>1, <1>2, <1>4, <2>1, LaneLetsGo DEF GivesUp, GivenBack
<1>5. CASE Leaves(l) /\ UNCHANGED queueVars
  <2>1. \A c : Succeeded(c)' => Succeeded(c)
    BY <1>5 DEF queueVars, Succeeded
  <2> QED BY <1>1, <1>2, <1>5, <2>1, LaneLetsGo DEF Leaves, SameBatches
<1>6. CASE Backoff(l) /\ UNCHANGED queueVars
  <2> DEFINE new == LaneAt("backoff", lane[l].items, lane[l].batch)
  <2>1. new.items = lane[l].items /\ new.batch = lane[l].batch /\ new.pc # "idle"
    BY DEF LaneAt
  <2>2. lane' = [lane EXCEPT ![l] = new] /\ UNCHANGED <<queue, batchTx, ticket, phase, todo>>
    BY <1>6 DEF Backoff, queueVars
  <2>3. \A c : Succeeded(c)' => \A m \in Lanes : lane[m].batch # c
    BY <2>2 DEF LaneInv, LanesUndecided, Succeeded
  <2> HIDE DEF new
  <2> QED BY <1>1, <2>1, <2>2, <2>3, LaneMovesOn
<1>7. CASE BackoffDone(l) /\ Leaves(l) /\ batchTx' = Without(batchTx, b)
  <2>1. \A c : Succeeded(c)' => Succeeded(c)
    BY <1>7 DEF Without, Succeeded
  <2> QED BY <1>1, <1>2, <1>7, <2>1, LaneLetsGo DEF Leaves, SameBatches
<1> QED BY <1>3, <1>4, <1>5, <1>6, <1>7, LaneStepCases

LEMMA LaneInvSignFail ==
    ASSUME Base, LaneInv, NEW l \in Lanes, SignFail(l)
    PROVE  LaneInv'
<1>1. UNCHANGED <<queue, batchTx, ticket>> /\ Return(l) /\ lane[l].pc # "idle"
  BY DEF SignFail, Lane, queueVars
<1>2. \A c : Succeeded(c)' => Succeeded(c)
  BY <1>1 DEF Succeeded
<1>3. ~ Succeeded(Null)'
  BY <1>2 DEF Succeeded, Base, TypeOK, QueueTypeOK, Null
<1> QED BY <1>1, <1>2, <1>3, LaneLetsGo

\* The rows of a new batch were in none, and its id is in no lane.
LEMMA LaneInvSignOk ==
    ASSUME Base, LaneInv, NEW l \in Lanes, SignOk(l)
    PROVE  LaneInv'
<1> DEFINE items == lane[l].items
           b == lastBatchId + 1
           ids == ItemsToProcess(items)
           new == LaneAt("sending", items, b)
<1>1. /\ lane[l].pc = "signing" /\ lane[l].batch = Null /\ ids \subseteq DOMAIN items
      /\ \A m \in Lanes : DOMAIN lane[m].items \subseteq 1..lastItemId
  BY DEF SignOk, Lane, ItemsToProcess, Base, TypeOK, LaneTypeOK
<1>2. /\ queue' = AssignedRows(queue, b, ids) /\ UNCHANGED <<ticket, phase, todo>>
      /\ lane' = [lane EXCEPT ![l] = new]
      /\ batchTx' = [c \in DOMAIN batchTx \cup {b} |->
                        IF c = b THEN "processing" ELSE batchTx[c]]
  BY DEF SignOk, CreateSignedTransaction
<1>3. \A i \in 1..lastItemId :
          queue'[i].batch_id = IF i \in ids THEN b ELSE queue[i].batch_id
  BY <1>2, Tables, AssignedIds
<1>4. new.items = items /\ new.batch = b /\ new.pc = "sending"
  BY DEF LaneAt
<1> HIDE DEF new, ids
<1>5. \A m \in Lanes : lane'[m] = IF m = l THEN new ELSE lane[m]
  BY <1>2, Tables
<1>6. \A m \in Lanes : lane[m].batch # b
  BY DEF Base, TypeOK, LaneTypeOK, ChainTypeOK, QueueTypeOK, Null
<1>7. b # Null
  BY DEF Base, TypeOK, QueueTypeOK, Null
<1>8. OneIteration' /\ RecoveryExact'
  <2>1. phase = "batching" /\ todo = {}
    BY <1>1, LaneBusy
  <2> QED BY <1>2, <1>4, <1>5, <2>1 DEF LaneInv, OneIteration, RecoveryExact
<1>9. LanesApart'
  BY <1>4, <1>5, <1>6 DEF LaneInv, LanesApart
<1>10. LanesOwnRows'
  <2> SUFFICES ASSUME NEW m \in Lanes, NEW i \in DOMAIN lane'[m].items
               PROVE  queue'[i].batch_id \in {Null, lane'[m].batch}
    BY DEF LanesOwnRows
  <2>1. i \in DOMAIN lane[m].items /\ i \in 1..lastItemId
    BY <1>1, <1>4, <1>5
  <2>2. queue[i].batch_id \in {Null, lane[m].batch}
    BY <2>1 DEF LaneInv, LanesOwnRows
  <2>3. CASE m = l
    BY <1>1, <1>3, <1>4, <1>5, <2>1, <2>2, <2>3
  <2>4. CASE m # l
    <3>1. i \notin ids
      BY <1>1, <2>1, <2>4 DEF LaneInv, LanesApart
    <3> QED BY <1>3, <1>5, <2>1, <2>2, <2>4, <3>1
  <2> QED BY <2>3, <2>4
<1>11. LanesUndecided'
  <2>1. \A c : Succeeded(c)' => c # b /\ Succeeded(c)
    BY <1>2 DEF Succeeded
  <2> SUFFICES ASSUME NEW m \in Lanes, NEW c, c = lane'[m].batch
               PROVE  ~ Succeeded(c)'
    BY DEF LanesUndecided, Succeeded
  <2>2. c = b \/ c = lane[m].batch
    BY <1>4, <1>5
  <2> QED BY <2>1, <2>2 DEF LaneInv, LanesUndecided
<1>12. CopiesHold'
  BY <1>2, <1>4, <1>5 DEF LaneInv, CopiesHold
<1> QED BY <1>8, <1>9, <1>10, <1>11, <1>12 DEF LaneInv

\* The slices of one poll are apart, their rows are in no batch, and the copies
\* are of the rows that the tickets name.
LEMMA LaneInvPolled ==
    ASSUME Base, NEW q \in Rows(lastItemId, lastBatchId), Poll(q),
           queue' = q, Base', UNCHANGED <<lastItemId, chain>>, todo' = {}
    PROVE  LaneInv'
<1> DEFINE peeked == Peek(q, NumKeys * BatchSize)
<1>0. \A l \in Lanes : lane'[l].batch = Null
  BY DEF Poll, IdleLane, LaneAt
<1>1. /\ \A l \in Lanes : \A i \in DOMAIN lane'[l].items :
            i \in DOMAIN q /\ lane'[l].items[i] = q[i]
      /\ phase' \in {"sleeping", "batching"}
  BY PollType DEF Base, TypeOK
<1>2. \A l \in Lanes : DOMAIN lane'[l].items \subseteq Slice(peeked, l)
  BY DEF Poll, IdleLane, LaneAt, EmptyFunction
<1>3. OneIteration'
  <2> SUFFICES ASSUME NEW l \in Lanes, phase' # "batching" \/ lane'[l].pc = "idle"
               PROVE  lane'[l] = IdleLane
    BY DEF OneIteration, IdleLane, LaneAt, EmptyFunction
  <2> QED BY DEF Poll, LaneAt
<1>4. LanesApart'
  BY <1>0, <1>2 DEF LanesApart, Slice, Lanes
<1>5. LanesOwnRows'
  BY <1>2, SliceIsPending DEF LanesOwnRows
<1>6. LanesUndecided'
  <2>1. \A c : Succeeded(c)' => c # Null
    BY DEF Succeeded, Base, TypeOK, QueueTypeOK, Null
  <2> SUFFICES ASSUME NEW l \in Lanes, NEW c, c = lane'[l].batch
               PROVE  ~ Succeeded(c)'
    BY DEF LanesUndecided, Succeeded
  <2> QED BY <1>0, <2>1
<1>7. RecoveryExact'
  BY <1>1 DEF RecoveryExact
<1>8. CopiesHold'
  <2>1. \A i \in DOMAIN q : q[i].amount \in SUBSET Requests
    BY DEF Rows, Row
  <2> QED BY <1>1, <2>1 DEF CopiesHold, Base, TicketHolds
<1> QED BY <1>3, <1>4, <1>5, <1>6, <1>7, <1>8 DEF LaneInv

\* start() and the lanes that rest: what LaneInv says when no lane is at work.
LEMMA LaneInvAtRest ==
    ASSUME \A l \in Lanes : lane'[l] = IdleLane, Base', RecoveryExact'
    PROVE  LaneInv'
<1>1. DOMAIN IdleLane.items = {} /\ IdleLane.batch = Null
  BY IdleFields
<1>2. OneIteration'
  BY DEF OneIteration, IdleLane, LaneAt, EmptyFunction
<1>3. LanesApart' /\ LanesOwnRows' /\ CopiesHold'
  BY <1>1 DEF LanesApart, LanesOwnRows, CopiesHold
<1>4. LanesUndecided'
  <2>1. \A c : Succeeded(c)' => c # Null
    BY DEF Succeeded, Base, TypeOK, QueueTypeOK, Null
  <2> SUFFICES ASSUME NEW l \in Lanes, NEW c, c = lane'[l].batch
               PROVE  ~ Succeeded(c)'
    BY DEF LanesUndecided, Succeeded
  <2> QED BY <1>1, <2>1
<1> QED BY <1>2, <1>3, <1>4 DEF LaneInv

\* start() recovers one batch and has the others still to do, or it has none left.
LEMMA LaneInvRecoverStep ==
    ASSUME Base, LaneInv, Base', phase # "batching", RecoverStep(PendingBatchTransactions),
           UNCHANGED chain
    PROVE  LaneInv'
<1>1. \A l \in Lanes : lane[l] = IdleLane
  BY DEF LaneInv, OneIteration
<1>2. ASSUME NEW b \in PendingBatchTransactions, RecoverFailedBatch(b, TRUE, FALSE),
             todo' = PendingBatchTransactions \ {b}, phase' = "recovering", UNCHANGED lane
      PROVE  LaneInv'
  <2>1. PendingBatchTransactions' = PendingBatchTransactions \ {b}
    BY <1>2 DEF RecoverFailedBatch, Without, PendingBatchTransactions
  <2>2. RecoveryExact'
    BY <1>2, <2>1 DEF RecoveryExact
  <2> QED BY <1>1, <1>2, <2>2, LaneInvAtRest
<1>3. ASSUME Recover, todo' = {}, Poll(ResetRows(queue, batchTx))
      PROVE  LaneInv'
  <2>1. queue' = ResetRows(queue, batchTx) /\ lastItemId' = lastItemId
    BY <1>3 DEF Recover
  <2>2. ResetRows(queue, batchTx) \in Rows(lastItemId, lastBatchId)
    BY Tables, ResetLemma
  <2> QED BY <1>3, <2>1, <2>2, LaneInvPolled
<1> QED BY <1>2, <1>3 DEF RecoverStep

LEMMA LaneInvLoopStep ==
    ASSUME Base, LaneInv, Base', LoopStep
    PROVE  LaneInv'
<1>1. CASE StartRecovery
  BY <1>1, LaneInvRecoverStep DEF StartRecovery
<1>2. CASE RecoverNext
  <2>1. todo = PendingBatchTransactions
    BY <1>2 DEF RecoverNext, LaneInv, RecoveryExact
  <2> QED BY <1>2, <2>1, LaneInvRecoverStep DEF RecoverNext
<1>3. CASE Wake
  <2>1. UNCHANGED <<queue, lastItemId, chain, todo>> /\ Poll(queue) /\ todo = {}
    BY <1>3 DEF Wake, queueVars, LaneInv, RecoveryExact
  <2> QED BY <2>1, Tables, LaneInvPolled
<1>4. CASE LoopCompleted
  <2>1. /\ UNCHANGED <<queue, batchTx, ticket, lane, todo>> /\ phase' = "sleeping"
        /\ \A l \in Lanes : lane[l].pc = "idle"
    BY <1>4 DEF LoopCompleted, queueVars, EndIteration
  <2>2. RecoveryExact'
    BY <1>4, <2>1 DEF LaneInv, RecoveryExact, LoopCompleted
  <2>3. \A l \in Lanes : lane'[l] = IdleLane
    BY <2>1 DEF LaneInv, OneIteration
  <2> QED BY <2>2, <2>3, LaneInvAtRest
<1> QED BY <1>1, <1>2, <1>3, <1>4 DEF LoopStep

\* A push leaves batches alone; the request it adds was in no copy.
LEMMA LaneInvPush ==
    ASSUME Base, LaneInv, NEW r \in Requests, NEW d \in DepositFlags, Post(r, d)
    PROVE  LaneInv'
<1>1. ticket[r] = Null /\ UNCHANGED <<lane, phase, todo, batchTx>>
  BY DEF Post, Push, Merge, Insert, execVars
<1>2. \A s \in Requests : s # r => ticket'[s] = ticket[s]
  BY DEF Post, Push, Merge, Insert, Base, TypeOK, QueueTypeOK
<1>3. \A i \in 1..lastItemId : queue'[i].batch_id = queue[i].batch_id
  <2>1. ASSUME NEW j \in Mergeable(Receiver[r]), Merge(r, j, d)
        PROVE  \A i \in 1..lastItemId : queue'[i].batch_id = queue[i].batch_id
    BY <2>1, Tables DEF Merge, MergedRows, Update, Rows, Row
  <2>2. ASSUME Insert(r, d)
        PROVE  \A i \in 1..lastItemId : queue'[i].batch_id = queue[i].batch_id
    BY <2>2, Tables DEF Insert
  <2> QED BY <2>1, <2>2 DEF Post, Push
<1>4. \A l \in Lanes : DOMAIN lane[l].items \subseteq 1..lastItemId
  BY DEF Base, TypeOK, LaneTypeOK
<1>5. LanesOwnRows'
  BY <1>1, <1>3, <1>4 DEF LaneInv, LanesOwnRows
<1>6. CopiesHold'
  <2> SUFFICES ASSUME NEW l \in Lanes, NEW i \in DOMAIN lane[l].items,
                      NEW s \in lane[l].items[i].amount
               PROVE  ticket'[s] = i
    BY <1>1 DEF CopiesHold
  <2>1. ticket[s] = i
    BY DEF LaneInv, CopiesHold
  <2>2. i \in 1..lastItemId /\ s \in Requests
    BY DEF Base, TypeOK, LaneTypeOK, Row
  <2> QED BY <1>1, <1>2, <2>1, <2>2 DEF Null
<1> QED BY <1>1, <1>5, <1>6
        DEF LaneInv, OneIteration, LanesApart, LanesUndecided, Succeeded, RecoveryExact,
            PendingBatchTransactions

\* Rows are taken out of batches at most; nothing else that LaneInv looks at changes.
LEMMA LaneInvKept ==
    ASSUME Base, LaneInv, UNCHANGED <<lane, todo, batchTx, ticket>>,
           phase' = phase \/ (phase = "down" /\ phase' = "starting"),
           \A i \in DOMAIN queue : queue'[i].batch_id \in {queue[i].batch_id, Null}
    PROVE  LaneInv'
<1>1. \A l \in Lanes : DOMAIN lane[l].items \subseteq DOMAIN queue
  BY Tables DEF Base, TypeOK, LaneTypeOK
<1>2. LanesOwnRows'
  BY <1>1 DEF LaneInv, LanesOwnRows
<1> QED BY <1>2
        DEF LaneInv, OneIteration, LanesApart, LanesUndecided, Succeeded, RecoveryExact,
            CopiesHold, PendingBatchTransactions

LEMMA LaneInvUnstall ==
    ASSUME Base, LaneInv, Unstall
    PROVE  LaneInv'
<1>1. PICK ids : /\ queue' = UnstalledRows(queue, ids)
                 /\ UNCHANGED <<lastItemId, batchTx, lastBatchId, ticket>>
  BY DEF Unstall, UnstallItem, UnstallItems, UnstallAll
<1>2. \A i \in DOMAIN queue : queue'[i].batch_id \in {queue[i].batch_id, Null}
  BY <1>1, Tables, UnstalledIds
<1> QED BY <1>1, <1>2, LaneInvKept DEF Unstall

LEMMA LaneInvStep ==
    ASSUME ASSUMED, Base, LaneInv, [Next]_vars
    PROVE  LaneInv'
<1>1. Base'
  BY BaseStep
<1>2. CASE LoopStep
  BY <1>1, <1>2, LaneInvLoopStep
<1>3. ASSUME NEW l \in Lanes, SignOk(l) \/ SignFail(l) \/ LaneStep(l)
      PROVE  LaneInv'
  BY <1>1, <1>3, LaneInvSignOk, LaneInvSignFail, LaneInvLaneStep
<1>4. CASE LoseMemory
  <2>1. RecoveryExact' /\ \A l \in Lanes : lane'[l] = IdleLane
    BY <1>4 DEF LoseMemory, RecoveryExact
  <2> QED BY <1>1, <2>1, LaneInvAtRest
<1>5. ASSUME NEW r \in Requests, NEW d \in DepositFlags, Post(r, d)
      PROVE  LaneInv'
  BY <1>5, LaneInvPush
<1>6. CASE Unstall
  BY <1>6, LaneInvUnstall
<1>7. CASE Boot \/ ChainStep \/ WaitUntilIdle \/ UNCHANGED vars
  <2>1. UNCHANGED <<queue, lane, todo, batchTx, ticket>>
    BY <1>7 DEF Boot, ChainStep, ChainExecute, ChainActionError, ChainRefuse, Settle,
                WaitUntilIdle, vars, queueVars, execVars
  <2>2. phase' = phase \/ (phase = "down" /\ phase' = "starting")
    BY <1>7 DEF Boot, ChainStep, ChainExecute, ChainActionError, ChainRefuse, Settle,
                WaitUntilIdle, vars, execVars
  <2> QED BY <2>1, <2>2, LaneInvKept
<1> QED BY <1>2, <1>3, <1>4, <1>5, <1>6, <1>7 DEF Next, Crash, CrashAfterStalling

\* Whatever fails, crashes, is unstalled or merged, no row and no batch is in the
\* hands of two lanes, a lane's rows are in its batch or in none, its batch has not
\* succeeded, and start() recovers exactly the batches that are processing.
THEOREM LaneInvariant == Spec => [](Base /\ LaneInv)
<1>1. ASSUMED
  BY QueueAssumption, ExecutorAssumption DEF ASSUMED
<1>2. Init => Base /\ LaneInv
  <2> SUFFICES ASSUME Init PROVE Base /\ LaneInv
    OBVIOUS
  <2>1. Base
    BY <1>1, BaseInit
  <2>2. \A l \in Lanes : lane[l] = IdleLane
    BY DEF Init
  <2>3. DOMAIN IdleLane.items = {} /\ IdleLane.batch = Null
    BY IdleFields
  <2>4. ~ Succeeded(Null)
    BY DEF Init, QueueInit, Succeeded
  <2>5. RecoveryExact
    BY DEF Init, RecoveryExact
  <2>6. LaneInv
    BY <2>2, <2>3, <2>4, <2>5
       DEF LaneInv, OneIteration, LanesApart, LanesOwnRows, LanesUndecided, CopiesHold
  <2> QED BY <2>1, <2>6
<1>3. Base /\ LaneInv /\ [Next]_vars => (Base /\ LaneInv)'
  BY <1>1, BaseStep, LaneInvStep
<1> QED BY <1>2, <1>3, PTL DEF Spec

-----------------------------------------------------------------------------
(* The items of a batch by their numbers *)

LEMMA LeastElement ==
    ASSUME NEW T \in SUBSET Nat, T # {}
    PROVE  \E m \in T : \A k \in T : m <= k
<1>1. PICK x \in T : \A y \in T : ~ (<<y, x>> \in OpToRel(<, Nat))
  BY NatLessThanWellFounded, WFMin
<1>2. \A y \in Nat : y < x => <<y, x>> \in OpToRel(<, Nat)
  BY DEF OpToRel
<1>3. \A y \in T : ~ (y < x)
  BY <1>1, <1>2, Zenon
<1> QED BY <1>3

LEMMA ItemsFinite ==
    ASSUME NEW n \in Nat, NEW ids, ids \subseteq 1..n
    PROVE  IsFiniteSet(ids) /\ Cardinality(ids) \in Nat
<1>1. IsFiniteSet(1..n) /\ ids \in SUBSET (1..n)
  BY FS_Interval
<1>2. IsFiniteSet(ids)
  BY <1>1, FS_Subset, Zenon
<1> QED BY <1>2, FS_CardinalityType

\* How many items come before the next id.
LEMMA RankStep ==
    ASSUME NEW ids, IsFiniteSet(ids), ids \subseteq Nat, NEW m \in Nat
    PROVE  /\ Rank(ids, m) \in Nat
           /\ Rank(ids, m + 1) = IF m \in ids THEN Rank(ids, m) + 1 ELSE Rank(ids, m)
<1> DEFINE below == {j \in ids : j < m}
<1>1. IsFiniteSet(below) /\ m \notin below
  BY FS_Subset
<1>2. \A j \in ids : j < m + 1 <=> j < m \/ j = m
  OBVIOUS
<1>3. {j \in ids : j < m + 1} = IF m \in ids THEN below \cup {m} ELSE below
  BY <1>2
<1> HIDE DEF below
<1>4. Cardinality(below) \in Nat
  BY <1>1, FS_CardinalityType
<1>5. Cardinality(below \cup {m}) = Cardinality(below) + 1
  BY <1>1, FS_AddElement
<1>6. Rank(ids, m) = Cardinality(below)
  BY DEF Rank, below
<1> QED BY <1>3, <1>4, <1>5, <1>6 DEF Rank

\* The items of a batch are numbered without gaps.
LEMMA RankReached ==
    ASSUME NEW n \in Nat, NEW ids, ids \subseteq 1..n, NEW k \in 0..(Cardinality(ids) - 1)
    PROVE  \E i \in ids : Rank(ids, i) = k
<1> DEFINE T == {m \in Nat : Rank(ids, m) > k}
<1>1. IsFiniteSet(ids) /\ Cardinality(ids) \in Nat
  BY ItemsFinite, Zenon
<1>2. ids \subseteq Nat /\ k \in Nat
  BY <1>1
<1>3. n + 1 \in T
  <2>1. \A j \in ids : j < n + 1
    OBVIOUS
  <2>2. {j \in ids : j < n + 1} = ids
    BY <2>1
  <2>3. Rank(ids, n + 1) = Cardinality(ids)
    BY <2>2, Zenon DEF Rank
  <2> QED BY <1>1, <1>2, <2>3
<1>4. 0 \notin T
  <2>1. \A j \in ids : ~ (j < 0)
    BY <1>2
  <2>2. {j \in ids : j < 0} = {}
    BY <2>1
  <2>3. Rank(ids, 0) = 0
    BY <2>2, FS_EmptySet, Zenon DEF Rank
  <2> QED BY <1>2, <2>3
<1>5. PICK m \in T : \A j \in T : m <= j
  <2>1. T \in SUBSET Nat /\ T # {}
    BY <1>3
  <2> HIDE DEF T
  <2> QED BY <2>1, LeastElement
<1>6. m - 1 \in Nat /\ m - 1 \notin T
  BY <1>4, <1>5
<1>7. /\ Rank(ids, m - 1) \in Nat
      /\ Rank(ids, m) = IF m - 1 \in ids THEN Rank(ids, m - 1) + 1 ELSE Rank(ids, m - 1)
  <2> DEFINE p == m - 1
  <2>1. p \in Nat /\ p + 1 = m
    BY <1>6
  <2> HIDE DEF p
  <2>2. /\ Rank(ids, p) \in Nat
        /\ Rank(ids, p + 1) = IF p \in ids THEN Rank(ids, p) + 1 ELSE Rank(ids, p)
    BY <1>1, <1>2, <2>1, RankStep
  <2>3. Rank(ids, m) = Rank(ids, p + 1)
    BY <2>1
  <2> QED BY <2>2, <2>3 DEF p
<1> QED BY <1>2, <1>5, <1>6, <1>7

\* Later items have a higher number.
LEMMA RankGrows ==
    ASSUME NEW n \in Nat, NEW ids, ids \subseteq 1..n, NEW i \in ids, NEW j \in ids, i < j
    PROVE  Rank(ids, i) < Rank(ids, j)
<1> DEFINE A == {k \in ids : k < i}
           B == {k \in ids : k < j}
<1>1. A \subseteq 1..n /\ B \subseteq 1..n /\ i \in B /\ i \notin A
  <2>1. i \in Nat
    OBVIOUS
  <2>2. i \notin A
    BY <2>1
  <2> QED BY <2>2, Zenon
<1>2. A \subseteq 1..n /\ B \subseteq 1..n /\ A \cup {i} \subseteq B /\ i \notin A
  <2>1. \A k \in A : k \in ids /\ k < j
    OBVIOUS
  <2>2. A \subseteq B
    BY <2>1
  <2> HIDE DEF A, B
  <2> QED BY <1>1, <2>2
<1>3. /\ IsFiniteSet(A) /\ Cardinality(A) \in Nat
      /\ IsFiniteSet(B) /\ Cardinality(B) \in Nat
  <2> HIDE DEF A, B
  <2> QED BY <1>2, ItemsFinite
<1>4. Rank(ids, i) = Cardinality(A) /\ Rank(ids, j) = Cardinality(B)
  BY DEF Rank
<1> HIDE DEF A, B
<1>5. Cardinality(A \cup {i}) = Cardinality(A) + 1
  BY <1>2, <1>3, FS_AddElement
<1>6. Cardinality(A \cup {i}) <= Cardinality(B)
  BY <1>2, <1>3, FS_Subset
<1> QED BY <1>3, <1>4, <1>5, <1>6

\* Two items do not share a number.
LEMMA RankApart ==
    ASSUME NEW n \in Nat, NEW ids, ids \subseteq 1..n, NEW i \in ids, NEW j \in ids,
           Rank(ids, i) = Rank(ids, j)
    PROVE  i = j
<1>1. i \in Nat /\ j \in Nat
  OBVIOUS
<1>2. Rank(ids, i) \in Nat
  <2>1. {k \in ids : k < i} \subseteq 1..n
    OBVIOUS
  <2> QED BY <2>1, ItemsFinite DEF Rank
<1>3. CASE i < j
  <2>1. Rank(ids, i) < Rank(ids, j)
    BY <1>3, RankGrows
  <2> QED BY <1>2, <2>1
<1>4. CASE j < i
  <2>1. Rank(ids, j) < Rank(ids, i)
    BY <1>4, RankGrows
  <2> QED BY <1>2, <2>1
<1> QED BY <1>1, <1>3, <1>4

\* items[k] is one of the items, the one with k before it.
LEMMA ItemAtInBatch ==
    ASSUME NEW n \in Nat, NEW items, DOMAIN items \subseteq 1..n,
           NEW k \in 0..(Cardinality(DOMAIN items) - 1)
    PROVE  ItemAt(items, k) \in DOMAIN items /\ Rank(DOMAIN items, ItemAt(items, k)) = k
  BY RankReached DEF ItemAt

\* The action that a failure names is an action of the transaction.
FailingIndex ==
    \A b \in DOMAIN chain : chain[b].state = "actionError" =>
        chain[b].at \in 0..(chain[b].actions - 1)

LEMMA FailingIndexStep ==
    ASSUME Base, FailingIndex, [Next]_vars
    PROVE  FailingIndex'
<1>1. CASE UNCHANGED chain
  BY <1>1 DEF FailingIndex
<1>2. ASSUME NEW l \in Lanes, SignOk(l)
      PROVE  FailingIndex'
  BY <1>2 DEF SignOk, FailingIndex
<1>3. CASE ChainStep
  <2>1. PICK b, outcome, index :
            /\ Settle(b, outcome, index)
            /\ outcome = "actionError" => index \in 0..(chain[b].actions - 1)
    BY <1>3 DEF ChainStep, ChainExecute, ChainActionError, ChainRefuse
  <2> QED BY <2>1 DEF Settle, FailingIndex, Base, TypeOK, ChainTypeOK, Transaction
<1>4. ASSUME NEW l \in Lanes, SignFail(l) \/ LaneStep(l) \/ CrashAfterStalling(l)
      PROVE  FailingIndex'
  BY <1>1, <1>4
     DEF SignFail, Return, LaneStep, RespondSuccess, RespondActionError, RespondIndexOutOfRange,
         RespondInvalidTx, RespondUnknownFailure, NetworkError, Backoff, BackoffDone,
         CrashAfterStalling, LoseMemory
<1> QED BY <1>1, <1>2, <1>3, <1>4
        DEF Next, vars, execVars, Boot, LoopStep, StartRecovery, RecoverNext, Wake, LoopCompleted,
            Crash, LoseMemory, Post, Unstall, WaitUntilIdle

\* The item that a failing action stalls is one of the lane's.
LEMMA FailingItem ==
    ASSUME Base, FailingIndex, NEW l \in Lanes, Answered(l, "actionError"), InRange(l)
    PROVE  ItemAt(lane[l].items, chain[lane[l].batch].at) \in DOMAIN lane[l].items
<1> DEFINE at == chain[lane[l].batch].at
           items == lane[l].items
<1>1. lane[l].batch \in DOMAIN chain /\ DOMAIN items \subseteq 1..lastItemId
  BY DEF Answered, Lane, Base, TypeOK, LaneTypeOK
<1>2. at \in Nat /\ at < Cardinality(DOMAIN items)
  BY <1>1 DEF FailingIndex, Answered, InRange, Base, TypeOK, ChainTypeOK, Transaction
<1>3. Cardinality(DOMAIN items) \in Nat
  BY <1>1, Tables, ItemsFinite
<1>4. at \in 0..(Cardinality(DOMAIN items) - 1)
  BY <1>2, <1>3
<1> HIDE DEF at, items
<1>5. ItemAt(items, at) \in DOMAIN items
  BY <1>1, <1>4, Tables, ItemAtInBatch
<1> QED BY <1>5 DEF at, items

-----------------------------------------------------------------------------
(* Success is final *)

\* StatusOf of a table of rows and a table of batches.
StatusIn(q, bt, i) ==
    CASE q[i].is_stalled -> "stalled"
      [] ~ q[i].is_stalled /\ q[i].batch_id = Null -> "pending"
      [] ~ q[i].is_stalled /\ q[i].batch_id \in DOMAIN bt -> bt[q[i].batch_id]
      [] OTHER -> "unknown"

LEMMA SuccessInTables ==
    ASSUME NEW q, NEW bt, NEW i, q[i].is_stalled \in BOOLEAN, Null \notin DOMAIN bt
    PROVE  StatusIn(q, bt, i) = "success" <=>
               /\ ~ q[i].is_stalled
               /\ q[i].batch_id \in DOMAIN bt /\ bt[q[i].batch_id] = "success"
<1>1. CASE q[i].is_stalled
  BY <1>1 DEF StatusIn
<1>2. CASE ~ q[i].is_stalled /\ q[i].batch_id = Null
  BY <1>2 DEF StatusIn
<1>3. CASE ~ q[i].is_stalled /\ q[i].batch_id # Null
  BY <1>3 DEF StatusIn
<1> QED BY <1>1, <1>2, <1>3

\* A row is successful when it is in a batch that has succeeded.
LEMMA SuccessMeans ==
    ASSUME Base, NEW i \in DOMAIN queue
    PROVE  StatusOf(i) = "success" <=>
               ~ queue[i].is_stalled /\ Succeeded(queue[i].batch_id)
<1>1. StatusOf(i) = StatusIn(queue, batchTx, i)
  BY DEF StatusOf, StatusIn
<1>2. queue[i].is_stalled \in BOOLEAN /\ Null \notin DOMAIN batchTx
  BY DEF Base, TypeOK, QueueTypeOK, Row, Null
<1> QED BY <1>1, <1>2, SuccessInTables DEF Succeeded

\* No lane holds a row that is successful, or its batch.
LEMMA SuccessHeldByNone ==
    ASSUME Base, LaneInv, NEW i \in DOMAIN queue, Succeeded(queue[i].batch_id), NEW l \in Lanes
    PROVE  i \notin DOMAIN lane[l].items /\ queue[i].batch_id # lane[l].batch
<1>1. queue[i].batch_id # lane[l].batch
  BY DEF LaneInv, LanesUndecided
<1>2. queue[i].batch_id # Null
  BY DEF Succeeded, Null, Base, TypeOK, QueueTypeOK
<1> QED BY <1>1, <1>2 DEF LaneInv, LanesOwnRows

LEMMA FinalStep ==
    ASSUME ASSUMED, Base, LaneInv, FailingIndex, [Next]_vars, NEW i \in DOMAIN queue,
           StatusOf(i) = "success"
    PROVE  StatusOf(i)' = "success"
<1>0. PICK b : b = queue[i].batch_id
  OBVIOUS
<1>1. Base'
  BY BaseStep
<1>2. /\ ~ queue[i].is_stalled /\ b = queue[i].batch_id /\ b # Null
      /\ Succeeded(b) /\ i \in 1..lastItemId
  BY <1>0, SuccessMeans, Tables DEF Succeeded, Null, Base, TypeOK, QueueTypeOK
<1>3. ASSUME i \in DOMAIN queue', ~ queue'[i].is_stalled, queue'[i].batch_id = b,
             Succeeded(b)'
      PROVE  StatusOf(i)' = "success"
  <2>1. queue'[i].is_stalled \in BOOLEAN /\ Null \notin DOMAIN batchTx'
    BY <1>1, <1>3 DEF Base, TypeOK, QueueTypeOK, Row, Null
  <2>2. StatusOf(i)' = StatusIn(queue', batchTx', i)
    BY DEF StatusOf, StatusIn
  <2>3. queue'[i].batch_id \in DOMAIN batchTx' /\ batchTx'[queue'[i].batch_id] = "success"
    BY <1>3 DEF Succeeded
  <2> HIDE DEF StatusIn
  <2> QED BY <1>3, <2>1, <2>2, <2>3, SuccessInTables
<1>4. CASE UNCHANGED <<queue, batchTx>>
  BY <1>2, <1>3, <1>4 DEF Succeeded
<1>5. ASSUME NEW c, GivenBack(queue, queue', c, {}), c # b,
             batchTx' = Without(batchTx, c)
      PROVE  StatusOf(i)' = "success"
  BY <1>2, <1>3, <1>5 DEF GivenBack, Without, Succeeded
<1>6. ASSUME NEW l \in Lanes, LaneStep(l)
      PROVE  StatusOf(i)' = "success"
  <2>1. i \notin DOMAIN lane[l].items /\ b # lane[l].batch
    BY <1>2, SuccessHeldByNone
  <2>2. ASSUME NEW S, GivesUp(l, S), i \notin S
        PROVE  StatusOf(i)' = "success"
    BY <1>2, <1>3, <2>1, <2>2 DEF GivesUp, GivenBack, Without, Succeeded
  <2>3. CASE RespondActionError(l)
             /\ GivesUp(l, {ItemAt(lane[l].items, chain[lane[l].batch].at)})
    <3>1. ItemAt(lane[l].items, chain[lane[l].batch].at) # i
      BY <2>1, <2>3, FailingItem DEF RespondActionError
    <3> QED BY <2>2, <2>3, <3>1
  <2>4. CASE RespondSuccess(l) /\ Leaves(l)
    BY <1>2, <1>3, <2>4 DEF RespondSuccess, MarkBatchSuccess, Leaves, SameBatches, Succeeded
  <2>5. CASE Leaves(l) /\ batchTx' = Without(batchTx, lane[l].batch)
    BY <1>2, <1>3, <2>1, <2>5 DEF Leaves, SameBatches, Without, Succeeded
  <2> QED BY <1>4, <1>6, <2>2, <2>3, <2>4, <2>5, LaneStepCases DEF queueVars
<1>7. ASSUME NEW l \in Lanes, SignOk(l)
      PROVE  StatusOf(i)' = "success"
  <2> DEFINE ids == ItemsToProcess(lane[l].items)
             c == lastBatchId + 1
  <2>1. i \notin ids /\ b # c
    BY <1>2, SuccessHeldByNone DEF ItemsToProcess, Succeeded, Base, TypeOK, QueueTypeOK
  <2>2. /\ queue' = AssignedRows(queue, c, ids)
        /\ batchTx' = [d \in DOMAIN batchTx \cup {c} |->
                          IF d = c THEN "processing" ELSE batchTx[d]]
    BY <1>7 DEF SignOk, CreateSignedTransaction
  <2> HIDE DEF ids, c
  <2>3. i \in DOMAIN queue' /\ queue'[i] = queue[i]
    BY <2>1, <2>2 DEF AssignedRows, Update
  <2>4. Succeeded(b)'
    BY <1>2, <2>1, <2>2 DEF Succeeded
  <2> QED BY <1>2, <1>3, <2>3, <2>4
<1>8. ASSUME NEW pending, RecoverStep(pending), pending = PendingBatchTransactions
      PROVE  StatusOf(i)' = "success"
  <2>1. ASSUME NEW c \in pending, RecoverFailedBatch(c, TRUE, FALSE)
        PROVE  StatusOf(i)' = "success"
    <3>1. c # b
      BY <1>2, <1>8 DEF PendingBatchTransactions, Succeeded
    <3>2. GivenBack(queue, queue', c, {}) /\ batchTx' = Without(batchTx, c)
      BY <2>1, Tables, RecoveredGivesBack DEF RecoverFailedBatch
    <3> QED BY <1>5, <3>1, <3>2
  <2>2. CASE Recover
    <3>1. i \in DOMAIN queue' /\ queue'[i] = queue[i]
      BY <1>2, <2>2 DEF Recover, ResetRows, Update, Succeeded
    <3>2. Succeeded(b)'
      BY <1>2, <2>2 DEF Recover, SuccessfulOnly, Succeeded
    <3> QED BY <1>2, <1>3, <3>1, <3>2
  <2> QED BY <1>8, <2>1, <2>2 DEF RecoverStep
<1>9. CASE LoopStep
  BY <1>4, <1>8, <1>9
     DEF LoopStep, StartRecovery, RecoverNext, Wake, LoopCompleted, queueVars, LaneInv, RecoveryExact
<1>10. ASSUME NEW l \in Lanes, CrashAfterStalling(l)
       PROVE  StatusOf(i)' = "success"
  <2> DEFINE item == ItemAt(lane[l].items, chain[lane[l].batch].at)
  <2>1. item # i
    BY <1>2, <1>10, FailingItem, SuccessHeldByNone DEF CrashAfterStalling
  <2>2. queue' = StalledRows(queue, item) /\ batchTx' = batchTx
    BY <1>10 DEF CrashAfterStalling, MarkItemStalled
  <2> HIDE DEF item
  <2>3. i \in DOMAIN queue' /\ queue'[i] = queue[i]
    BY <2>1, <2>2 DEF StalledRows, Update
  <2> QED BY <1>2, <1>3, <2>2, <2>3 DEF Succeeded
<1>11. ASSUME NEW r \in Requests, NEW d \in DepositFlags, Post(r, d)
       PROVE  StatusOf(i)' = "success"
  <2>1. ASSUME NEW j \in Mergeable(Receiver[r]), Merge(r, j, d)
        PROVE  StatusOf(i)' = "success"
    <3>1. j # i
      BY <1>2 DEF Mergeable, Pending
    <3>2. i \in DOMAIN queue' /\ queue'[i] = queue[i] /\ batchTx' = batchTx
      BY <2>1, <3>1 DEF Merge, MergedRows, Update
    <3> QED BY <1>2, <1>3, <3>2 DEF Succeeded
  <2>2. ASSUME Insert(r, d)
        PROVE  StatusOf(i)' = "success"
    <3>1. i \in DOMAIN queue' /\ queue'[i] = queue[i] /\ batchTx' = batchTx
      BY <1>2, <2>2, Tables DEF Insert
    <3> QED BY <1>2, <1>3, <3>1 DEF Succeeded
  <2> QED BY <1>11, <2>1, <2>2 DEF Post, Push
<1>12. CASE Unstall
  <2>1. PICK ids : queue' = UnstalledRows(queue, ids) /\ batchTx' = batchTx
    BY <1>12 DEF Unstall, UnstallItem, UnstallItems, UnstallAll
  <2>2. i \in DOMAIN queue' /\ queue'[i] = queue[i]
    BY <1>2, <2>1 DEF UnstalledRows, Update, Stalled
  <2> QED BY <1>2, <1>3, <2>1, <2>2 DEF Succeeded
<1>13. CASE Boot \/ ChainStep \/ Crash \/ WaitUntilIdle \/ UNCHANGED vars
  BY <1>4, <1>13 DEF Boot, ChainStep, ChainExecute, ChainActionError, ChainRefuse, Settle, Crash,
                     WaitUntilIdle, vars, queueVars
<1>14. ASSUME NEW l \in Lanes, SignFail(l)
       PROVE  StatusOf(i)' = "success"
  BY <1>4, <1>14 DEF SignFail, queueVars
<1> QED BY <1>6, <1>7, <1>9, <1>10, <1>11, <1>12, <1>13, <1>14 DEF Next

LEMMA FailingIndexInvariant == Spec => []FailingIndex
<1>1. Init => FailingIndex
  BY DEF Init, EmptyFunction, FailingIndex
<1>2. Base /\ FailingIndex /\ [Next]_vars => FailingIndex'
  BY FailingIndexStep
<1> QED BY <1>1, <1>2, LaneInvariant, PTL DEF Spec

\* A transfer that the API has once reported as successful stays successful, through
\* failures and retries of other batches, merges, unstalls, crashes and restarts.
THEOREM SuccessStaysFinal == Spec => SuccessIsFinal
<1>1. ASSUMED
  BY QueueAssumption, ExecutorAssumption DEF ASSUMED
<1>2. Base /\ LaneInv /\ FailingIndex /\ [Next]_vars
        => [\A i \in DOMAIN queue :
                StatusOf(i) = "success" => StatusOf(i)' = "success"]_vars
  BY <1>1, FinalStep
<1> QED BY <1>2, FailingIndexInvariant, LaneInvariant, PTL DEF Spec, SuccessIsFinal

-----------------------------------------------------------------------------
(* Stalled rows are left out *)

\* Nothing can use up the retries of a row that a lane is about to send.
Uncapped == MaxUnstalls = 0 \/ NumKeys = 1

LEMMA RetriesLeftStep ==
    ASSUME MaxUnstalls = 0, Base, RetriesLeft, [Next]_vars
    PROVE  RetriesLeft'
<1> USE Tables
<1>1. CASE UNCHANGED queue
  BY <1>1 DEF RetriesLeft
<1>2. ASSUME NEW b, NEW S, GivenBack(queue, queue', b, S)
      PROVE  RetriesLeft'
  <2> SUFFICES ASSUME NEW i \in DOMAIN queue, ~ queue'[i].is_stalled
               PROVE  queue'[i].retry_count <= MaxRetries
    BY <1>2 DEF RetriesLeft, GivenBack
  <2>1. queue[i].retry_count \in Nat /\ MaxRetries \in Nat
    BY QueueAssumption DEF Base, TypeOK, QueueTypeOK, Row
  <2>2. /\ queue'[i].retry_count = IF queue[i].batch_id = b THEN queue[i].retry_count + 1
                                   ELSE queue[i].retry_count
        /\ queue'[i].batch_id = IF queue[i].batch_id = b THEN Null ELSE queue[i].batch_id
        /\ ~ queue[i].is_stalled
        /\ ~ (queue'[i].batch_id = Null /\ queue'[i].retry_count > MaxRetries)
    BY <1>2, Zenon DEF GivenBack
  <2>3. CASE queue[i].batch_id = b
    BY <2>1, <2>2, <2>3
  <2>4. CASE queue[i].batch_id # b
    BY <2>2, <2>4 DEF RetriesLeft
  <2> QED BY <2>3, <2>4
<1>3. ASSUME SameBatches(queue, queue')
      PROVE  RetriesLeft'
  BY <1>3 DEF RetriesLeft, SameBatches
<1>4. ASSUME NEW l \in Lanes, LaneStep(l)
      PROVE  RetriesLeft'
  BY <1>1, <1>2, <1>3, <1>4, LaneStepCases DEF GivesUp, Leaves, queueVars
<1>5. ASSUME NEW l \in Lanes, SignOk(l)
      PROVE  RetriesLeft'
  BY <1>5 DEF SignOk, CreateSignedTransaction, AssignedRows, Update, RetriesLeft, Rows, Row
<1>6. ASSUME NEW pending, RecoverStep(pending)
      PROVE  RetriesLeft'
  <2>1. ASSUME NEW b, RecoverFailedBatch(b, TRUE, FALSE)
        PROVE  RetriesLeft'
    BY <1>2, <2>1, RecoveredGivesBack DEF RecoverFailedBatch
  <2>2. CASE Recover
    BY <2>2 DEF Recover, ResetRows, Update, RetriesLeft, Rows, Row
  <2> QED BY <1>6, <2>1, <2>2 DEF RecoverStep
<1>7. ASSUME NEW l \in Lanes, CrashAfterStalling(l)
      PROVE  RetriesLeft'
  <2>1. PICK item : queue' = StalledRows(queue, item)
    BY <1>7, Zenon DEF CrashAfterStalling, MarkItemStalled
  <2> QED BY <2>1 DEF StalledRows, Update, RetriesLeft, Rows, Row
<1>8. ASSUME NEW r \in Requests, NEW d \in DepositFlags, Post(r, d)
      PROVE  RetriesLeft'
  <2>1. ASSUME NEW j \in Mergeable(Receiver[r]), Merge(r, j, d)
        PROVE  RetriesLeft'
    BY <2>1 DEF Merge, MergedRows, Update, RetriesLeft, Rows, Row
  <2>2. ASSUME Insert(r, d)
        PROVE  RetriesLeft'
    <3>1. 0 <= MaxRetries
      BY QueueAssumption
    <3> QED BY <2>2, <3>1 DEF Insert, NewRow, RetriesLeft
  <2> QED BY <1>8, <2>1, <2>2 DEF Post, Push
<1>9. ~ Unstall
  BY DEF Unstall, Base, TypeOK
<1>10. ASSUME NEW l \in Lanes, SignFail(l)
       PROVE  RetriesLeft'
  BY <1>1, <1>10 DEF SignFail, queueVars
<1>11. CASE Wake \/ LoopCompleted
  BY <1>1, <1>11 DEF Wake, LoopCompleted, queueVars
<1> QED BY <1>1, <1>4, <1>5, <1>6, <1>7, <1>8, <1>9, <1>10, <1>11
        DEF Next, vars, queueVars, Boot, LoopStep, StartRecovery, RecoverNext, ChainStep,
            ChainExecute, ChainActionError, ChainRefuse, Settle, Crash, WaitUntilIdle

\* Without operators, no row that is not stalled has used up its retries.
LEMMA RetriesLeftInvariant ==
    ASSUME MaxUnstalls = 0
    PROVE  Spec => []RetriesLeft
<1>1. Init => RetriesLeft
  BY DEF Init, QueueInit, RetriesLeft
<1>2. Base /\ RetriesLeft /\ [Next]_vars => RetriesLeft'
  BY RetriesLeftStep
<1> QED BY <1>1, <1>2, LaneInvariant, PTL DEF Spec

\* The lanes that sign hold what they held, or nothing, and none of their rows is
\* stalled meanwhile.
LEMMA UnstalledKept ==
    ASSUME Base, SigningUnstalled,
           \A l \in Lanes : lane'[l].pc = "signing" =>
               lane[l].pc = "signing" /\ lane'[l].items = lane[l].items,
           \A l \in Lanes : lane'[l].pc = "signing" =>
               \A i \in DOMAIN lane[l].items : ~ queue[i].is_stalled => ~ queue'[i].is_stalled
    PROVE  SigningUnstalled'
  BY DEF SigningUnstalled

\* An answer to one lane stalls no row that another lane is about to send.
LEMMA UnstalledLaneStep ==
    ASSUME Uncapped, Base, LaneInv, FailingIndex, MaxUnstalls = 0 => RetriesLeft,
           SigningUnstalled, NEW l \in Lanes, LaneStep(l)
    PROVE  SigningUnstalled'
<1> USE Tables
<1>1. /\ lane[l].pc \in {"sending", "backoff"} /\ lane[l].batch # Null
      /\ \A m \in Lanes : m # l => lane'[m] = lane[m]
      /\ lane'[l].pc # "signing"
  <2>1. lane[l].pc \in {"sending", "backoff"}
    BY LaneStepCases
  <2>2. CASE Return(l)
    BY <2>1, <2>2, IdleFields DEF Return, Base, TypeOK, LaneTypeOK, ChainTypeOK, Null
  <2>3. CASE Backoff(l)
    BY <2>1, <2>3 DEF Backoff, LaneAt, Base, TypeOK, LaneTypeOK, ChainTypeOK, Null
  <2> QED BY <2>2, <2>3, LaneStepCases DEF GivesUp, Leaves
<1> SUFFICES ASSUME NEW m \in Lanes, m # l, lane[m].pc = "signing",
                    NEW i \in DOMAIN lane[m].items
             PROVE  ~ queue'[i].is_stalled
  BY <1>1 DEF SigningUnstalled
<1>2. MaxUnstalls = 0
  <2>1. Lanes = 1..NumKeys
    BY DEF Lanes
  <2> QED BY <2>1 DEF Uncapped
<1>3. /\ i \in DOMAIN queue /\ ~ queue[i].is_stalled /\ lane[m].batch = Null
      /\ queue[i].batch_id = Null
  BY DEF SigningUnstalled, LaneInv, LanesOwnRows, Base, TypeOK, LaneTypeOK
<1>4. queue[i].retry_count \in Nat /\ MaxRetries \in Nat /\ queue[i].retry_count <= MaxRetries
  BY <1>2, <1>3, QueueAssumption DEF RetriesLeft, Base, TypeOK, QueueTypeOK, Row
<1>5. i \notin DOMAIN lane[l].items
  BY DEF LaneInv, LanesApart
<1>6. ASSUME NEW S, GivesUp(l, S), i \notin S
      PROVE  ~ queue'[i].is_stalled
  <2>1. /\ queue'[i].retry_count = queue[i].retry_count
        /\ queue'[i].is_stalled = (\/ queue[i].is_stalled
                                   \/ i \in S
                                   \/ queue'[i].batch_id = Null /\ queue'[i].retry_count > MaxRetries)
    BY <1>1, <1>3, <1>6 DEF GivesUp, GivenBack
  <2>2. ~ (queue'[i].retry_count > MaxRetries)
    BY <1>4, <2>1
  <2> QED BY <1>3, <1>6, <2>1, <2>2
<1>7. CASE RespondActionError(l)
           /\ GivesUp(l, {ItemAt(lane[l].items, chain[lane[l].batch].at)})
  <2>1. ItemAt(lane[l].items, chain[lane[l].batch].at) # i
    BY <1>5, <1>7, FailingItem DEF RespondActionError
  <2> QED BY <1>6, <1>7, <2>1
<1>8. CASE Leaves(l) \/ UNCHANGED queueVars
  BY <1>3, <1>8 DEF Leaves, SameBatches, queueVars
<1> QED BY <1>6, <1>7, <1>8, LaneStepCases

LEMMA UnstalledStep ==
    ASSUME Uncapped, Base, LaneInv, FailingIndex, MaxUnstalls = 0 => RetriesLeft,
           SigningUnstalled, [Next]_vars
    PROVE  SigningUnstalled'
<1> USE Tables
<1>1. CASE UNCHANGED queue /\ UNCHANGED lane
  BY <1>1 DEF SigningUnstalled
<1>2. ASSUME \A l \in Lanes : lane'[l].pc # "signing"
      PROVE  SigningUnstalled'
  BY <1>2 DEF SigningUnstalled
<1>3. ASSUME NEW q \in Rows(lastItemId, lastBatchId), Poll(q), queue' = q,
             UNCHANGED <<lastItemId, chain>>
      PROVE  SigningUnstalled'
  <2>1. \A l \in Lanes : DOMAIN lane'[l].items
                           \subseteq Slice(Peek(q, NumKeys * BatchSize), l)
    BY <1>3 DEF Poll, IdleLane, LaneAt, EmptyFunction
  <2> QED BY <1>3, <2>1, SliceIsPending DEF SigningUnstalled
<1>4. ASSUME NEW pending, RecoverStep(pending), UNCHANGED chain, phase # "batching"
      PROVE  SigningUnstalled'
  <2>1. ASSUME UNCHANGED lane
        PROVE  SigningUnstalled'
    BY <1>2, <1>4, <2>1, LaneBusy
  <2>2. ASSUME Recover, Poll(ResetRows(queue, batchTx))
        PROVE  SigningUnstalled'
    BY <1>3, <1>4, <2>2, ResetLemma DEF Recover
  <2> QED BY <1>4, <2>1, <2>2 DEF RecoverStep
<1>5. CASE LoopStep
  BY <1>1, <1>3, <1>4, <1>5
     DEF LoopStep, StartRecovery, RecoverNext, Wake, LoopCompleted, queueVars
<1>6. ASSUME NEW l \in Lanes, LaneStep(l)
      PROVE  SigningUnstalled'
  BY <1>6, UnstalledLaneStep
<1>7. ASSUME NEW l \in Lanes, SignOk(l)
      PROVE  SigningUnstalled'
  <2>1. /\ \A i \in DOMAIN queue : queue'[i].is_stalled = queue[i].is_stalled
        /\ \A m \in Lanes : m # l => lane'[m] = lane[m]
        /\ lane'[l].pc = "sending"
    BY <1>7 DEF SignOk, CreateSignedTransaction, AssignedRows, Update, Rows, Row, LaneAt
  <2>2. \A m \in Lanes : DOMAIN lane[m].items \subseteq DOMAIN queue
    BY DEF Base, TypeOK, LaneTypeOK
  <2> QED BY <2>1, <2>2, UnstalledKept
<1>8. ASSUME NEW l \in Lanes, SignFail(l)
      PROVE  SigningUnstalled'
  <2>1. queue' = queue /\ lane' = [lane EXCEPT ![l] = IdleLane] /\ IdleLane.pc # "signing"
    BY <1>8, IdleFields DEF SignFail, Return, queueVars
  <2> QED BY <2>1, UnstalledKept
<1>9. CASE LoseMemory
  BY <1>2, <1>9, IdleFields DEF LoseMemory
<1>10. ASSUME UNCHANGED lane,
              \A i \in DOMAIN queue : ~ queue[i].is_stalled => ~ queue'[i].is_stalled
       PROVE  SigningUnstalled'
  <2>1. \A m \in Lanes : DOMAIN lane[m].items \subseteq DOMAIN queue
    BY DEF Base, TypeOK, LaneTypeOK
  <2> QED BY <1>10, <2>1, UnstalledKept
<1>11. ASSUME NEW r \in Requests, NEW d \in DepositFlags, Post(r, d)
       PROVE  SigningUnstalled'
  <2>1. ASSUME NEW j \in Mergeable(Receiver[r]), Merge(r, j, d)
        PROVE  \A i \in DOMAIN queue : ~ queue[i].is_stalled => ~ queue'[i].is_stalled
    BY <2>1 DEF Merge, MergedRows, Update, Rows, Row
  <2>2. ASSUME Insert(r, d)
        PROVE  \A i \in DOMAIN queue : ~ queue[i].is_stalled => ~ queue'[i].is_stalled
    BY <2>2 DEF Insert
  <2> QED BY <1>10, <1>11, <2>1, <2>2 DEF Post, Push, execVars
<1>12. CASE Unstall
  <2>1. PICK ids : queue' = UnstalledRows(queue, ids) /\ UNCHANGED lane
    BY <1>12 DEF Unstall, UnstallItem, UnstallItems, UnstallAll
  <2>2. \A i \in DOMAIN queue : ~ queue[i].is_stalled => ~ queue'[i].is_stalled
    BY <2>1 DEF UnstalledRows, Update, Stalled
  <2> QED BY <1>10, <2>1, <2>2
<1>13. CASE Boot \/ ChainStep \/ WaitUntilIdle \/ UNCHANGED vars
  BY <1>1, <1>13 DEF Boot, ChainStep, ChainExecute, ChainActionError, ChainRefuse, Settle,
                     WaitUntilIdle, vars, queueVars, execVars
<1> QED BY <1>5, <1>6, <1>7, <1>8, <1>9, <1>11, <1>12, <1>13
        DEF Next, Crash, CrashAfterStalling

\* With retries left, or with one lane, no row is stalled between peek and the write
\* of its batch, although nothing looks at it again.
THEOREM SigningInvariant ==
    ASSUME Uncapped
    PROVE  Spec => []SigningUnstalled
<1> DEFINE Left == MaxUnstalls = 0 => RetriesLeft
<1>1. Init => Left /\ SigningUnstalled
  BY IdleFields DEF Init, QueueInit, RetriesLeft, SigningUnstalled
<1>2. Base /\ Left /\ [Next]_vars => Left'
  BY RetriesLeftStep
<1>3. Base /\ LaneInv /\ FailingIndex /\ Left /\ SigningUnstalled /\ [Next]_vars
        => SigningUnstalled'
  BY UnstalledStep
<1> HIDE DEF Left
<1> QED BY <1>1, <1>2, <1>3, FailingIndexInvariant, LaneInvariant, PTL DEF Spec

-----------------------------------------------------------------------------
(* Batches that are processing are attended, and no row in them is stalled *)

\* The lane returns after its batch has been given up, or has succeeded.
LEMMA AttendedReturn ==
    ASSUME ProcessingAttended, NEW l \in Lanes, NEW new, lane' = [lane EXCEPT ![l] = new],
           DOMAIN lane = Lanes, UNCHANGED <<phase, chain>>,
           PendingBatchTransactions' \subseteq PendingBatchTransactions,
           lane[l].batch \in PendingBatchTransactions' =>
               \/ new.batch = lane[l].batch
               \/ /\ lane[l].batch \in DOMAIN chain
                  /\ chain[lane[l].batch].state = "unknownFailure"
    PROVE  ProcessingAttended'
<1>1. \A m \in Lanes : lane'[m] = IF m = l THEN new ELSE lane[m]
  OBVIOUS
<1> SUFFICES ASSUME NEW b \in PendingBatchTransactions', ~ RecoveryAhead',
                    ~ (b \in DOMAIN chain /\ chain[b].state = "unknownFailure")
             PROVE  \E m \in Lanes : lane'[m].batch = b
  BY DEF ProcessingAttended
<1>2. PICK m \in Lanes : lane[m].batch = b
  BY DEF ProcessingAttended, RecoveryAhead
<1> QED BY <1>1, <1>2

LEMMA AttendedLaneStep ==
    ASSUME Base, ProcessingAttended, NEW l \in Lanes, LaneStep(l)
    PROVE  ProcessingAttended'
<1> DEFINE b == lane[l].batch
<1>1. b \in DOMAIN chain /\ DOMAIN lane = Lanes
  BY LaneStepCases DEF Base, TypeOK, LaneTypeOK
<1>2. ASSUME Return(l), PendingBatchTransactions' \subseteq PendingBatchTransactions \ {b}
      PROVE  ProcessingAttended'
  BY <1>1, <1>2, AttendedReturn DEF Return
<1>3. CASE RespondSuccess(l)
  <2>1. PendingBatchTransactions' \subseteq PendingBatchTransactions \ {b}
    BY <1>3 DEF RespondSuccess, MarkBatchSuccess, PendingBatchTransactions
  <2> QED BY <1>2, <1>3, <2>1 DEF RespondSuccess
<1>4. ASSUME Return(l), batchTx' = Without(batchTx, b)
      PROVE  ProcessingAttended'
  <2>1. PendingBatchTransactions' \subseteq PendingBatchTransactions \ {b}
    BY <1>4 DEF Without, PendingBatchTransactions
  <2> QED BY <1>2, <1>4, <2>1
<1>5. CASE RespondUnknownFailure(l)
  <2>1. chain[b].state = "unknownFailure" /\ Return(l) /\ batchTx' = batchTx
    BY <1>5 DEF RespondUnknownFailure, Answered, queueVars
  <2>2. PendingBatchTransactions' = PendingBatchTransactions
    BY <2>1 DEF PendingBatchTransactions
  <2> QED BY <1>1, <2>1, <2>2, AttendedReturn DEF Return
<1>6. CASE Backoff(l)
  <2> DEFINE new == LaneAt("backoff", lane[l].items, lane[l].batch)
  <2>1. /\ lane' = [lane EXCEPT ![l] = new] /\ new.batch = b
        /\ UNCHANGED <<phase, chain, batchTx>>
    BY <1>6 DEF Backoff, LaneAt, queueVars
  <2>2. PendingBatchTransactions' = PendingBatchTransactions
    BY <2>1 DEF PendingBatchTransactions
  <2> HIDE DEF new
  <2> QED BY <1>1, <2>1, <2>2, AttendedReturn
<1> QED BY <1>3, <1>4, <1>5, <1>6, LaneStepCases DEF GivesUp, Leaves

\* A new batch is that of the lane which has signed it.
LEMMA AttendedSignOk ==
    ASSUME Base, ProcessingAttended, NEW l \in Lanes, SignOk(l)
    PROVE  ProcessingAttended'
<1> DEFINE b == lastBatchId + 1
<1>1. lane[l].batch = Null /\ b \notin DOMAIN chain /\ Null \notin DOMAIN batchTx
  BY DEF SignOk, Lane, Base, TypeOK, LaneTypeOK, ChainTypeOK, QueueTypeOK, Null
<1>2. /\ lane'[l].batch = b /\ \A m \in Lanes : m # l => lane'[m] = lane[m]
      /\ PendingBatchTransactions' \subseteq PendingBatchTransactions \cup {b}
      /\ phase' = phase /\ DOMAIN chain' = DOMAIN chain \cup {b}
      /\ \A c \in DOMAIN chain : chain'[c] = IF c = b THEN chain'[c] ELSE chain[c]
  BY Tables DEF SignOk, CreateSignedTransaction, LaneAt, PendingBatchTransactions,
                Base, TypeOK, LaneTypeOK
<1> HIDE DEF b
<1> SUFFICES ASSUME NEW c \in PendingBatchTransactions', ~ RecoveryAhead',
                    ~ (c \in DOMAIN chain' /\ chain'[c].state = "unknownFailure")
             PROVE  \E m \in Lanes : lane'[m].batch = c
  BY DEF ProcessingAttended
<1>3. CASE c = b
  BY <1>2, <1>3
<1>4. CASE c # b
  <2>1. c \in PendingBatchTransactions /\ c # Null
    BY <1>1, <1>2, <1>4 DEF PendingBatchTransactions
  <2>2. ~ (c \in DOMAIN chain /\ chain[c].state = "unknownFailure") /\ ~ RecoveryAhead
    BY <1>2, <1>4 DEF RecoveryAhead
  <2>3. PICK m \in Lanes : lane[m].batch = c
    BY <2>1, <2>2 DEF ProcessingAttended
  <2> QED BY <1>1, <1>2, <2>1, <2>3
<1> QED BY <1>3, <1>4

\* After recover() nothing is processing.
LEMMA RecoverLeavesNone ==
    ASSUME Recover
    PROVE  PendingBatchTransactions' = {}
  BY DEF Recover, SuccessfulOnly, PendingBatchTransactions

\* A turn of the recovery is followed by another, or has left nothing to do.
LEMMA RecoveryGoesOn ==
    ASSUME StartRecovery \/ RecoverNext
    PROVE  RecoveryAhead' \/ PendingBatchTransactions' = {}
  BY RecoverLeavesNone DEF StartRecovery, RecoverNext, RecoverStep, RecoveryAhead

LEMMA AttendedStep ==
    ASSUME Base, LaneInv, ProcessingAttended, [Next]_vars
    PROVE  ProcessingAttended'
<1>1. CASE RecoveryAhead' \/ PendingBatchTransactions' = {}
  BY <1>1 DEF ProcessingAttended
<1>2. CASE UNCHANGED <<batchTx, lane, chain, phase>>
  BY <1>2 DEF ProcessingAttended, PendingBatchTransactions, RecoveryAhead
<1>3. CASE Wake \/ LoopCompleted
  <2>1. /\ phase \in {"sleeping", "batching"} /\ UNCHANGED <<batchTx, chain>>
        /\ \A l \in Lanes : lane[l] = IdleLane
    BY <1>3 DEF Wake, LoopCompleted, queueVars, LaneInv, OneIteration
  <2>2. \A b \in PendingBatchTransactions : b # Null
    BY DEF PendingBatchTransactions, Base, TypeOK, QueueTypeOK, Null
  <2> QED BY <2>1, <2>2, IdleFields
          DEF ProcessingAttended, PendingBatchTransactions, RecoveryAhead
<1>4. ASSUME NEW l \in Lanes, SignFail(l)
      PROVE  ProcessingAttended'
  <2>1. lane[l].batch = Null /\ Null \notin DOMAIN batchTx /\ DOMAIN lane = Lanes
    BY <1>4 DEF SignFail, Lane, Base, TypeOK, LaneTypeOK, QueueTypeOK, Null
  <2>2. PendingBatchTransactions' = PendingBatchTransactions
    BY <1>4 DEF SignFail, queueVars, PendingBatchTransactions
  <2>3. lane[l].batch \notin PendingBatchTransactions
    BY <2>1 DEF PendingBatchTransactions
  <2> QED BY <1>4, <2>1, <2>2, <2>3, AttendedReturn DEF SignFail, Return
<1>5. ASSUME NEW b, NEW outcome, NEW index, Settle(b, outcome, index)
      PROVE  ProcessingAttended'
  <2>1. \A c \in DOMAIN chain : chain[c].state = "unknownFailure" => chain'[c] = chain[c]
    BY <1>5 DEF Settle
  <2>2. DOMAIN chain' = DOMAIN chain /\ UNCHANGED <<batchTx, lane, phase>>
    BY <1>5 DEF Settle, queueVars
  <2> QED BY <2>1, <2>2 DEF ProcessingAttended, PendingBatchTransactions, RecoveryAhead
<1>6. CASE ChainStep
  BY <1>5, <1>6 DEF ChainStep, ChainExecute, ChainActionError, ChainRefuse
<1>7. CASE LoopStep
  BY <1>1, <1>3, <1>7, RecoveryGoesOn DEF LoopStep
<1>8. CASE Boot \/ LoseMemory
  BY <1>1, <1>8 DEF Boot, LoseMemory, RecoveryAhead
<1>9. ASSUME NEW l \in Lanes, SignOk(l) \/ LaneStep(l)
      PROVE  ProcessingAttended'
  BY <1>9, AttendedSignOk, AttendedLaneStep
<1>10. ASSUME NEW r \in Requests, NEW d \in DepositFlags, Post(r, d)
       PROVE  ProcessingAttended'
  BY <1>2, <1>10 DEF Post, Push, Merge, Insert, execVars
<1>11. CASE Unstall \/ WaitUntilIdle \/ UNCHANGED vars
  BY <1>2, <1>11 DEF Unstall, UnstallItem, UnstallItems, UnstallAll, WaitUntilIdle, vars,
                     queueVars, execVars
<1> QED BY <1>4, <1>6, <1>7, <1>8, <1>9, <1>10, <1>11 DEF Next, Crash, CrashAfterStalling

\* Whatever fails, crashes, is unstalled or merged, no batch is left processing with
\* nobody to come back to it, unless its transaction failed in an unknown way: then
\* it is the next start() that does.
THEOREM AttendedInvariant == Spec => []ProcessingAttended
<1>1. Init => ProcessingAttended
  BY DEF Init, ProcessingAttended, RecoveryAhead
<1>2. Base /\ LaneInv /\ ProcessingAttended /\ [Next]_vars => ProcessingAttended'
  BY AttendedStep
<1> QED BY <1>1, <1>2, LaneInvariant, PTL DEF Spec

\* An answer to a lane stalls rows that it takes out of their batch, or that are in none.
LEMMA InFlightLaneStep ==
    ASSUME Base, LaneInv, FailingIndex, StalledNotInFlight, NEW l \in Lanes, LaneStep(l)
    PROVE  StalledNotInFlight'
<1> USE Tables
<1>1. phase' = phase
  BY LaneStepCases DEF GivesUp, Leaves, Return, Backoff
<1>2. Null \notin DOMAIN batchTx
  BY DEF Base, TypeOK, QueueTypeOK, Null
<1>3. ASSUME SameBatches(queue, queue'),
             PendingBatchTransactions' \subseteq PendingBatchTransactions
      PROVE  StalledNotInFlight'
  BY <1>1, <1>3 DEF StalledNotInFlight, Stalled, SameBatches, RecoveryAhead
<1>4. ASSUME NEW S, GivesUp(l, S), \A i \in S : i \in DOMAIN lane[l].items
      PROVE  StalledNotInFlight'
  <2> DEFINE b == lane[l].batch
  <2>1. PendingBatchTransactions' \subseteq PendingBatchTransactions \ {b}
    BY <1>4 DEF GivesUp, Without, PendingBatchTransactions
  <2> SUFFICES ASSUME NEW i \in DOMAIN queue, queue'[i].is_stalled,
                      queue'[i].batch_id \in PendingBatchTransactions'
               PROVE  RecoveryAhead'
    BY <1>4 DEF StalledNotInFlight, Stalled, GivesUp, GivenBack
  <2>2. queue'[i].batch_id # Null
    BY <1>2, <2>1 DEF PendingBatchTransactions
  <2>3. queue[i].batch_id # b /\ queue'[i].batch_id = queue[i].batch_id
    BY <1>4, <2>1, <2>2 DEF GivesUp, GivenBack
  <2>4. i \notin S
    BY <1>4, <2>2, <2>3 DEF LaneInv, LanesOwnRows
  <2>5. queue[i].is_stalled
    <3>1. queue'[i].is_stalled = (\/ queue[i].is_stalled
                                  \/ i \in S
                                  \/ queue'[i].batch_id = Null
                                     /\ queue'[i].retry_count > MaxRetries)
      BY <1>4 DEF GivesUp, GivenBack
    <3> QED BY <2>2, <2>4, <3>1
  <2> QED BY <1>1, <2>1, <2>3, <2>5 DEF StalledNotInFlight, Stalled, RecoveryAhead
<1>5. CASE RespondActionError(l)
           /\ GivesUp(l, {ItemAt(lane[l].items, chain[lane[l].batch].at)})
  BY <1>4, <1>5, FailingItem DEF RespondActionError
<1>6. CASE RespondSuccess(l) /\ Leaves(l)
  <2>1. PendingBatchTransactions' \subseteq PendingBatchTransactions
    BY <1>6 DEF RespondSuccess, MarkBatchSuccess, PendingBatchTransactions
  <2> QED BY <1>3, <1>6, <2>1 DEF Leaves
<1>7. CASE Leaves(l) /\ batchTx' = Without(batchTx, lane[l].batch)
  <2>1. PendingBatchTransactions' \subseteq PendingBatchTransactions
    BY <1>7 DEF Without, PendingBatchTransactions
  <2> QED BY <1>3, <1>7, <2>1 DEF Leaves
<1>8. CASE UNCHANGED queueVars
  BY <1>1, <1>8 DEF queueVars, StalledNotInFlight, Stalled, PendingBatchTransactions,
                    RecoveryAhead
<1> QED BY <1>4, <1>5, <1>6, <1>7, <1>8, LaneStepCases

LEMMA InFlightSignOk ==
    ASSUME Base, SigningUnstalled, StalledNotInFlight, NEW l \in Lanes, SignOk(l)
    PROVE  StalledNotInFlight'
<1> DEFINE b == lastBatchId + 1
           ids == ItemsToProcess(lane[l].items)
<1>1. /\ queue' = AssignedRows(queue, b, ids) /\ phase' = phase
      /\ PendingBatchTransactions' \subseteq PendingBatchTransactions \cup {b}
      /\ \A i \in ids : ~ queue[i].is_stalled
  BY DEF SignOk, CreateSignedTransaction, PendingBatchTransactions, SigningUnstalled, Lane,
         ItemsToProcess
<1>2. \A i \in DOMAIN queue : queue[i].batch_id # b
  BY Tables DEF Base, TypeOK, QueueTypeOK
<1>3. /\ DOMAIN queue' = DOMAIN queue
      /\ \A i \in DOMAIN queue :
            /\ queue'[i].is_stalled = queue[i].is_stalled
            /\ i \notin ids => queue'[i].batch_id = queue[i].batch_id
  BY <1>1, Tables DEF AssignedRows, Update, Rows, Row
<1> HIDE DEF b, ids
<1> QED BY <1>1, <1>2, <1>3 DEF StalledNotInFlight, Stalled, RecoveryAhead

LEMMA InFlightStep ==
    ASSUME Base, LaneInv, FailingIndex, SigningUnstalled, StalledNotInFlight, [Next]_vars
    PROVE  StalledNotInFlight'
<1> USE Tables
<1>1. CASE RecoveryAhead' \/ PendingBatchTransactions' = {}
  BY <1>1 DEF StalledNotInFlight
<1>2. CASE UNCHANGED <<queue, batchTx, phase>>
  BY <1>2 DEF StalledNotInFlight, Stalled, PendingBatchTransactions, RecoveryAhead
<1>3. CASE Wake \/ LoopCompleted
  BY <1>3 DEF Wake, LoopCompleted, queueVars, StalledNotInFlight, Stalled,
              PendingBatchTransactions, RecoveryAhead
<1>4. CASE LoopStep
  BY <1>1, <1>3, <1>4, RecoveryGoesOn DEF LoopStep
<1>5. CASE Boot \/ LoseMemory
  BY <1>1, <1>5 DEF Boot, LoseMemory, RecoveryAhead
<1>6. ASSUME NEW l \in Lanes, SignOk(l) \/ LaneStep(l)
      PROVE  StalledNotInFlight'
  BY <1>6, InFlightSignOk, InFlightLaneStep
<1>7. ASSUME NEW l \in Lanes, SignFail(l)
      PROVE  StalledNotInFlight'
  BY <1>2, <1>7 DEF SignFail, Return, queueVars
<1>8. ASSUME UNCHANGED <<batchTx, phase>>,
             \A i \in DOMAIN queue' : queue'[i].is_stalled =>
                 /\ i \in DOMAIN queue /\ queue[i].is_stalled
                 /\ queue'[i].batch_id = queue[i].batch_id
      PROVE  StalledNotInFlight'
  BY <1>8 DEF StalledNotInFlight, Stalled, PendingBatchTransactions, RecoveryAhead
<1>9. ASSUME NEW r \in Requests, NEW d \in DepositFlags, Post(r, d)
      PROVE  StalledNotInFlight'
  <2>1. ASSUME NEW j \in Mergeable(Receiver[r]), Merge(r, j, d)
        PROVE  StalledNotInFlight'
    BY <1>8, <1>9, <2>1 DEF Merge, MergedRows, Update, Rows, Row, Post, execVars
  <2>2. ASSUME Insert(r, d)
        PROVE  StalledNotInFlight'
    BY <1>8, <1>9, <2>2 DEF Insert, NewRow, Post, execVars
  <2> QED BY <1>9, <2>1, <2>2 DEF Post, Push
<1>10. CASE Unstall
  <2>1. PICK ids : /\ queue' = UnstalledRows(queue, ids)
                   /\ UNCHANGED <<batchTx, phase>>
    BY <1>10 DEF Unstall, UnstallItem, UnstallItems, UnstallAll
  <2>2. \A i \in DOMAIN queue' : queue'[i].is_stalled => i \in DOMAIN queue /\ queue'[i] = queue[i]
    BY <2>1 DEF UnstalledRows, Update, Stalled, Rows, Row
  <2> QED BY <1>8, <2>1, <2>2
<1>11. CASE ChainStep \/ WaitUntilIdle \/ UNCHANGED vars
  BY <1>2, <1>11 DEF ChainStep, ChainExecute, ChainActionError, ChainRefuse, Settle,
                     WaitUntilIdle, vars, queueVars, execVars
<1> QED BY <1>4, <1>5, <1>6, <1>7, <1>9, <1>10, <1>11 DEF Next, Crash, CrashAfterStalling

\* With one key, or without unstalls, no stalled row is in flight, whatever else fails
\* or crashes, but between a crash and the end of the recovery.
THEOREM StalledRestsOutside ==
    ASSUME Uncapped
    PROVE  Spec => []StalledNotInFlight
<1>1. Init => StalledNotInFlight
  BY DEF Init, StalledNotInFlight, RecoveryAhead
<1>2. Base /\ LaneInv /\ FailingIndex /\ SigningUnstalled /\ StalledNotInFlight /\ [Next]_vars
        => StalledNotInFlight'
  BY InFlightStep
<1> QED BY <1>1, <1>2, SigningInvariant, FailingIndexInvariant, LaneInvariant, PTL DEF Spec

=============================================================================
