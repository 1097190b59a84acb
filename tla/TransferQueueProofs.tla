------------------------ MODULE TransferQueueProofs ------------------------
(***************************************************************************)
(* What the operations of the queue keep, for every set of requests and    *)
(* accounts and for tables of any size.  The proofs about QueueClient and  *)
(* Executor rest on the lemmas of this module.                             *)
(***************************************************************************)
EXTENDS TransferQueue, TLAPS

\* Tables of n rows whose batch ids do not exceed m.
Rows(n, m) == {q \in [1..n -> Row] : \A i \in 1..n : q[i].batch_id \in 0..m}

\* p says of the money what q says: same rows, same amounts, same receivers.
SameMoney(q, p) ==
    /\ DOMAIN p = DOMAIN q
    /\ \A i \in DOMAIN q :
          /\ p[i].amount = q[i].amount
          /\ p[i].receiver_account_id = q[i].receiver_account_id

-----------------------------------------------------------------------------
(* The updates of the rows *)

\* One row, two fields set: the three UPDATE statements that do so.
LEMMA UnstalledRow ==
    ASSUME NEW row \in Row, NEW stalled \in BOOLEAN, NEW b \in Nat
    PROVE  [row EXCEPT !.is_stalled = stalled, !.batch_id = b] \in Row
  BY DEF Row

LEMMA RetriedRow ==
    ASSUME NEW row \in Row, NEW b \in Nat, NEW count \in Nat
    PROVE  [row EXCEPT !.batch_id = b, !.retry_count = count] \in Row
  BY DEF Row

LEMMA MergedRow ==
    ASSUME NEW row \in Row, NEW amount \in SUBSET Requests, NEW deposit \in BOOLEAN
    PROVE  [row EXCEPT !.amount = amount, !.has_storage_deposit = deposit] \in Row
  BY DEF Row

\* Putting rows in a batch changes their batch_id only.
LEMMA AssignedLemma ==
    ASSUME NEW n \in Nat, NEW m \in Nat, NEW q \in Rows(n, m),
           NEW b \in 1..(m + 1), NEW ids
    PROVE  /\ AssignedRows(q, b, ids) \in Rows(n, m + 1)
           /\ SameMoney(q, AssignedRows(q, b, ids))
<1> DEFINE p == AssignedRows(q, b, ids)
<1>1. q \in [1..n -> Row] /\ \A i \in 1..n : q[i].batch_id \in 0..m
  BY DEF Rows
<1>2. DOMAIN p = 1..n
  BY <1>1 DEF AssignedRows, Update
<1>3. ASSUME NEW i \in 1..n
      PROVE  /\ p[i] \in Row
             /\ p[i].batch_id \in 0..(m + 1)
             /\ p[i].amount = q[i].amount
             /\ p[i].receiver_account_id = q[i].receiver_account_id
  <2>1. p[i] = IF i \in ids THEN [q[i] EXCEPT !.batch_id = b] ELSE q[i]
    BY <1>1 DEF AssignedRows, Update
  <2>2. q[i] \in Row /\ q[i].batch_id \in 0..m
    BY <1>1
  <2>3. b \in Nat /\ b \in 0..(m + 1) /\ q[i].batch_id \in 0..(m + 1)
    BY <2>2
  <2> QED
    BY <2>1, <2>2, <2>3 DEF Row
<1>4. p = [i \in 1..n |-> p[i]]
  BY <1>1, <1>2 DEF AssignedRows, Update
<1> HIDE DEF p
<1>5. p \in [1..n -> Row]
  BY <1>3, <1>4
<1>6. p \in Rows(n, m + 1) /\ SameMoney(q, p)
  BY <1>1, <1>2, <1>3, <1>5 DEF Rows, SameMoney
<1> QED
  BY <1>6 DEF p

LEMMA DepositedLemma ==
    ASSUME NEW n \in Nat, NEW m \in Nat, NEW q \in Rows(n, m), NEW b
    PROVE  /\ DepositedRows(q, b) \in Rows(n, m)
           /\ SameMoney(q, DepositedRows(q, b))
  BY DEF DepositedRows, Update, Members, Rows, Row, SameMoney

LEMMA StalledLemma ==
    ASSUME NEW n \in Nat, NEW m \in Nat, NEW q \in Rows(n, m), NEW i
    PROVE  /\ StalledRows(q, i) \in Rows(n, m)
           /\ SameMoney(q, StalledRows(q, i))
  BY DEF StalledRows, Update, Rows, Row, SameMoney

LEMMA UnstalledLemma ==
    ASSUME NEW n \in Nat, NEW m \in Nat, NEW q \in Rows(n, m), NEW ids
    PROVE  /\ UnstalledRows(q, ids) \in Rows(n, m)
           /\ SameMoney(q, UnstalledRows(q, ids))
<1> DEFINE p == UnstalledRows(q, ids)
<1>1. q \in [1..n -> Row]
  BY DEF Rows
<1>2. DOMAIN p = 1..n
  BY <1>1 DEF UnstalledRows, Update
<1>3. ASSUME NEW i \in 1..n
      PROVE  /\ p[i] \in Row
             /\ p[i].batch_id \in {q[i].batch_id, 0}
             /\ p[i].amount = q[i].amount
             /\ p[i].receiver_account_id = q[i].receiver_account_id
  <2>1. p[i] = IF i \in ids \cap Stalled(q)
               THEN [q[i] EXCEPT !.is_stalled = FALSE, !.batch_id = Null]
               ELSE q[i]
    BY <1>1 DEF UnstalledRows, Update
  <2>2. q[i] \in Row
    BY <1>1
  <2> DEFINE new == [q[i] EXCEPT !.is_stalled = FALSE, !.batch_id = 0]
  <2>3. 0 \in Nat /\ FALSE \in BOOLEAN
    OBVIOUS
  <2>4. /\ new \in Row
        /\ new.batch_id = 0
        /\ new.amount = q[i].amount
        /\ new.receiver_account_id = q[i].receiver_account_id
    <3>1. new \in Row
      BY <2>2, <2>3, UnstalledRow, Zenon
    <3>2. new.batch_id = 0
      BY <2>2 DEF Row
    <3>3. new.amount = q[i].amount
      BY <2>2 DEF Row
    <3>4. new.receiver_account_id = q[i].receiver_account_id
      BY <2>2 DEF Row
    <3> QED BY <3>1, <3>2, <3>3, <3>4
  <2>5. p[i] = IF i \in ids \cap Stalled(q) THEN new ELSE q[i]
    BY <2>1, Zenon DEF Null
  <2> HIDE DEF new
  <2> QED BY <2>2, <2>4, <2>5
<1>4. p = [i \in 1..n |-> p[i]]
  BY <1>1 DEF UnstalledRows, Update
<1>5. p \in [1..n -> Row]
  BY <1>3, <1>4
<1> QED BY <1>1, <1>2, <1>3, <1>5 DEF Rows, SameMoney

LEMMA ResetLemma ==
    ASSUME NEW n \in Nat, NEW m \in Nat, NEW q \in Rows(n, m), NEW bt
    PROVE  /\ ResetRows(q, bt) \in Rows(n, m)
           /\ SameMoney(q, ResetRows(q, bt))
  BY DEF ResetRows, Update, Rows, Row, SameMoney, Null

LEMMA ToldLemma ==
    ASSUME NEW n \in Nat, NEW m \in Nat, NEW q \in Rows(n, m), NEW b
    PROVE  /\ ToldRows(q, b) \in Rows(n, m)
           /\ SameMoney(q, ToldRows(q, b))
  BY DEF ToldRows, Update, Members, Rows, Row, SameMoney

LEMMA RetriedLemma ==
    ASSUME NEW n \in Nat, NEW m \in Nat, NEW q \in Rows(n, m), NEW b
    PROVE  /\ RetriedRows(q, b) \in Rows(n, m)
           /\ SameMoney(q, RetriedRows(q, b))
<1> DEFINE p == RetriedRows(q, b)
<1>1. q \in [1..n -> Row]
  BY DEF Rows
<1>2. DOMAIN p = 1..n
  BY <1>1 DEF RetriedRows, Update
<1>3. ASSUME NEW i \in 1..n
      PROVE  /\ p[i] \in Row
             /\ p[i].batch_id \in {q[i].batch_id, 0}
             /\ p[i].amount = q[i].amount
             /\ p[i].receiver_account_id = q[i].receiver_account_id
  <2>1. p[i] = IF i \in Members(q, b)
               THEN [q[i] EXCEPT !.batch_id = Null, !.retry_count = @ + 1]
               ELSE q[i]
    BY <1>1 DEF RetriedRows, Update
  <2>2. q[i] \in Row
    BY <1>1
  <2> DEFINE count == q[i].retry_count + 1
             new == [q[i] EXCEPT !.batch_id = 0, !.retry_count = count]
  <2>3. count \in Nat /\ 0 \in Nat
    BY <2>2 DEF Row
  <2> HIDE DEF count
  <2>4. /\ new \in Row
        /\ new.batch_id = 0
        /\ new.amount = q[i].amount
        /\ new.receiver_account_id = q[i].receiver_account_id
    <3>1. new \in Row
      BY <2>2, <2>3, RetriedRow, Zenon
    <3>2. new.batch_id = 0
      BY <2>2 DEF Row
    <3>3. new.amount = q[i].amount
      BY <2>2 DEF Row
    <3>4. new.receiver_account_id = q[i].receiver_account_id
      BY <2>2 DEF Row
    <3> QED BY <3>1, <3>2, <3>3, <3>4
  <2>5. p[i] = IF i \in Members(q, b) THEN new ELSE q[i]
    BY <2>1, Zenon DEF Null, count
  <2> HIDE DEF new
  <2> QED BY <2>2, <2>4, <2>5
<1>4. p = [i \in 1..n |-> p[i]]
  BY <1>1 DEF RetriedRows, Update
<1>5. p \in [1..n -> Row]
  BY <1>3, <1>4
<1> QED BY <1>1, <1>2, <1>3, <1>5 DEF Rows, SameMoney

LEMMA CappedLemma ==
    ASSUME NEW n \in Nat, NEW m \in Nat, NEW q \in Rows(n, m)
    PROVE  /\ CappedRows(q) \in Rows(n, m)
           /\ SameMoney(q, CappedRows(q))
  BY DEF CappedRows, Update, Spent, Rows, Row, SameMoney

\* recoverFailedBatch gives back rows of the same money, whatever its flags.
LEMMA RecoveredLemma ==
    ASSUME NEW n \in Nat, NEW m \in Nat, NEW q \in Rows(n, m), NEW b,
           NEW message \in BOOLEAN, NEW without \in BOOLEAN
    PROVE  /\ RecoveredRows(q, b, message, without) \in Rows(n, m)
           /\ SameMoney(q, RecoveredRows(q, b, message, without))
<1> DEFINE told == IF message THEN ToldRows(q, b) ELSE q
           tried == RetriedRows(told, b)
<1>1. told \in Rows(n, m) /\ SameMoney(q, told)
  <2>1. CASE message
    BY <2>1, ToldLemma
  <2>2. CASE ~ message
    BY <2>2 DEF SameMoney
  <2> QED BY <2>1, <2>2
<1>2. tried \in Rows(n, m) /\ SameMoney(told, tried)
  <2> HIDE DEF told
  <2> QED BY <1>1, RetriedLemma
<1>3. CappedRows(tried) \in Rows(n, m) /\ SameMoney(tried, CappedRows(tried))
  <2> HIDE DEF tried
  <2> QED BY <1>2, CappedLemma
<1>4. RecoveredRows(q, b, message, without)
          = IF without THEN told ELSE CappedRows(tried)
  BY DEF RecoveredRows
<1>5. SameMoney(q, CappedRows(tried))
  <2> HIDE DEF told, tried
  <2> QED BY <1>1, <1>2, <1>3 DEF SameMoney
<1> HIDE DEF told, tried
<1> QED BY <1>1, <1>3, <1>4, <1>5

-----------------------------------------------------------------------------
(* What each update does to the batch a row is in *)

LEMMA AssignedIds ==
    ASSUME NEW n \in Nat, NEW m \in Nat, NEW q \in Rows(n, m), NEW b, NEW ids,
           NEW i \in 1..n
    PROVE  AssignedRows(q, b, ids)[i].batch_id = IF i \in ids THEN b ELSE q[i].batch_id
  BY DEF AssignedRows, Update, Rows, Row

LEMMA DepositedIds ==
    ASSUME NEW n \in Nat, NEW m \in Nat, NEW q \in Rows(n, m), NEW b, NEW i \in 1..n
    PROVE  DepositedRows(q, b)[i].batch_id = q[i].batch_id
  BY DEF DepositedRows, Update, Rows, Row

LEMMA StalledIds ==
    ASSUME NEW n \in Nat, NEW m \in Nat, NEW q \in Rows(n, m), NEW j, NEW i \in 1..n
    PROVE  StalledRows(q, j)[i].batch_id = q[i].batch_id
  BY DEF StalledRows, Update, Rows, Row

LEMMA UnstalledIds ==
    ASSUME NEW n \in Nat, NEW m \in Nat, NEW q \in Rows(n, m), NEW ids, NEW i \in 1..n
    PROVE  UnstalledRows(q, ids)[i].batch_id \in {q[i].batch_id, Null}
  BY DEF UnstalledRows, Update, Rows, Row

LEMMA ResetIds ==
    ASSUME NEW n \in Nat, NEW m \in Nat, NEW q \in Rows(n, m), NEW bt, NEW i \in 1..n
    PROVE  ResetRows(q, bt)[i].batch_id
             = IF q[i].batch_id \in DOMAIN bt /\ bt[q[i].batch_id] = "processing"
               THEN Null ELSE q[i].batch_id
  BY DEF ResetRows, Update, Rows, Row

LEMMA ToldIds ==
    ASSUME NEW n \in Nat, NEW m \in Nat, NEW q \in Rows(n, m), NEW b, NEW i \in 1..n
    PROVE  ToldRows(q, b)[i].batch_id = q[i].batch_id
  BY DEF ToldRows, Update, Rows, Row

LEMMA RetriedIds ==
    ASSUME NEW n \in Nat, NEW m \in Nat, NEW q \in Rows(n, m), NEW b, NEW i \in 1..n
    PROVE  RetriedRows(q, b)[i].batch_id
             = IF q[i].batch_id = b THEN Null ELSE q[i].batch_id
  BY DEF RetriedRows, Update, Members, Rows, Row

LEMMA CappedIds ==
    ASSUME NEW n \in Nat, NEW m \in Nat, NEW q \in Rows(n, m), NEW i \in 1..n
    PROVE  CappedRows(q)[i].batch_id = q[i].batch_id
  BY DEF CappedRows, Update, Rows, Row

\* recoverFailedBatch frees the rows of the batch and no others, or, without
\* retry count, frees none.
LEMMA RecoveredIds ==
    ASSUME NEW n \in Nat, NEW m \in Nat, NEW q \in Rows(n, m), NEW b,
           NEW message \in BOOLEAN, NEW without \in BOOLEAN, NEW i \in 1..n
    PROVE  RecoveredRows(q, b, message, without)[i].batch_id
             = IF q[i].batch_id = b /\ ~ without THEN Null ELSE q[i].batch_id
<1> DEFINE told == IF message THEN ToldRows(q, b) ELSE q
           tried == RetriedRows(told, b)
<1>1. told \in Rows(n, m) /\ told[i].batch_id = q[i].batch_id
  BY ToldLemma, ToldIds
<1>2. /\ tried \in Rows(n, m)
      /\ tried[i].batch_id = IF told[i].batch_id = b THEN Null ELSE told[i].batch_id
  <2> HIDE DEF told
  <2> QED BY <1>1, RetriedLemma, RetriedIds
<1>3. CappedRows(tried)[i].batch_id = tried[i].batch_id
  <2> HIDE DEF tried
  <2> QED BY <1>2, CappedIds
<1>4. RecoveredRows(q, b, message, without)
          = IF without THEN told ELSE CappedRows(tried)
  BY DEF RecoveredRows
<1> HIDE DEF told, tried
<1> QED BY <1>1, <1>2, <1>3, <1>4

-----------------------------------------------------------------------------
(* The operations *)

\* What the operations other than push keep of the tables and the tickets.
LEMMA KeepsMoney ==
    ASSUME QueueTypeOK, TicketHolds, SameMoney(queue, queue'), ticket' = ticket
    PROVE  TicketHolds'
  BY DEF QueueTypeOK, TicketHolds, SameMoney, Null

LEMMA TypeByRows ==
    ASSUME QueueTypeOK, queue' \in Rows(lastItemId, lastBatchId),
           UNCHANGED <<lastItemId, lastBatchId, ticket>>,
           DOMAIN batchTx' \subseteq DOMAIN batchTx,
           batchTx' \in [DOMAIN batchTx' -> BatchStatus]
    PROVE  QueueTypeOK'
  BY DEF QueueTypeOK, Rows

LEMMA QueueIsRows ==
    ASSUME QueueTypeOK
    PROVE  queue \in Rows(lastItemId, lastBatchId)
  BY DEF QueueTypeOK, Rows

LEMMA InitQueue ==
    ASSUME QueueAssumption, QueueInit
    PROVE  QueueTypeOK /\ TicketHolds
  BY DEF QueueInit, QueueTypeOK, TicketHolds, Null, BatchStatus

LEMMA StutterQueue ==
    ASSUME QueueTypeOK, TicketHolds, UNCHANGED queueVars
    PROVE  QueueTypeOK' /\ TicketHolds'
  BY DEF queueVars, QueueTypeOK, TicketHolds, Null

\* push keeps the ticket of every request on the one row that pays it, whether
\* it merges or inserts.
LEMMA PushQueue ==
    ASSUME QueueAssumption, QueueTypeOK, TicketHolds,
           NEW r \in Requests, NEW deposit \in BOOLEAN, Push(r, deposit)
    PROVE  QueueTypeOK' /\ TicketHolds'
<1> USE DEF Null
<1>1. Receiver[r] \in Accounts
  BY DEF QueueAssumption
<1>2. ASSUME NEW i \in Mergeable(Receiver[r]), Merge(r, i, deposit)
      PROVE  QueueTypeOK' /\ TicketHolds'
  <2>1. i \in 1..lastItemId /\ queue[i].receiver_account_id = Receiver[r]
    BY <1>2 DEF Mergeable, Pending, QueueTypeOK
  <2> DEFINE sum == queue[i].amount \cup {r}
             new == [queue[i] EXCEPT !.amount = sum, !.has_storage_deposit = deposit]
  <2>2. queue[i] \in Row /\ sum \in SUBSET Requests
    BY <2>1 DEF QueueTypeOK, Row
  <2> HIDE DEF sum
  <2>3. /\ new \in Row
        /\ new.batch_id = queue[i].batch_id
        /\ new.amount = sum
        /\ new.receiver_account_id = queue[i].receiver_account_id
    <3>1. new \in Row
      BY <2>2, MergedRow, Zenon
    <3>2. new.batch_id = queue[i].batch_id
      BY <2>2 DEF Row
    <3>3. new.amount = sum
      BY <2>2 DEF Row
    <3>4. new.receiver_account_id = queue[i].receiver_account_id
      BY <2>2 DEF Row
    <3> QED BY <3>1, <3>2, <3>3, <3>4
  <2>4. queue' = [j \in DOMAIN queue |-> IF j \in {i} THEN new ELSE queue[j]]
    BY <1>2, Zenon DEF Merge, MergedRows, Update, sum
  <2> HIDE DEF new
  <2>5. QueueTypeOK'
    BY <1>2, <2>1, <2>3, <2>4 DEF Merge, QueueTypeOK
  <2>6. TicketHolds'
    BY <1>2, <2>1, <2>3, <2>4 DEF Merge, QueueTypeOK, TicketHolds, Push, sum
  <2> QED BY <2>5, <2>6
<1>3. ASSUME Insert(r, deposit)
      PROVE  QueueTypeOK' /\ TicketHolds'
  <2>1. NewRow(r, deposit) \in Row
    BY <1>1 DEF NewRow, Row
  <2>2. /\ NewRow(r, deposit).amount = {r}
        /\ NewRow(r, deposit).batch_id = 0
        /\ NewRow(r, deposit).receiver_account_id = Receiver[r]
    BY DEF NewRow
  <2>3. QueueTypeOK'
    BY <1>3, <2>1, <2>2 DEF Insert, QueueTypeOK
  <2>4. TicketHolds'
    BY <1>3, <2>2 DEF Insert, QueueTypeOK, TicketHolds, Push
  <2> QED BY <2>3, <2>4
<1> QED BY <1>2, <1>3 DEF Push

LEMMA CreateQueue ==
    ASSUME QueueTypeOK, TicketHolds, NEW ids, CreateSignedTransaction(ids)
    PROVE  QueueTypeOK' /\ TicketHolds'
<1>1. lastBatchId \in Nat /\ lastItemId \in Nat /\ lastBatchId + 1 \in 1..(lastBatchId + 1)
  BY DEF QueueTypeOK
<1>2. /\ queue' \in Rows(lastItemId, lastBatchId + 1)
      /\ SameMoney(queue, queue')
  BY <1>1, QueueIsRows, AssignedLemma DEF CreateSignedTransaction
<1>3. QueueTypeOK'
  BY <1>1, <1>2 DEF CreateSignedTransaction, QueueTypeOK, Rows, BatchStatus
<1>4. TicketHolds'
  BY <1>2, KeepsMoney DEF CreateSignedTransaction
<1> QED BY <1>3, <1>4

LEMMA MarkSuccessQueue ==
    ASSUME QueueTypeOK, TicketHolds, NEW b, MarkBatchSuccess(b)
    PROVE  QueueTypeOK' /\ TicketHolds'
<1>1. queue' \in Rows(lastItemId, lastBatchId) /\ SameMoney(queue, queue')
  BY QueueIsRows, DepositedLemma DEF MarkBatchSuccess, QueueTypeOK
<1>2. DOMAIN batchTx' = DOMAIN batchTx /\ batchTx' \in [DOMAIN batchTx' -> BatchStatus]
  BY DEF MarkBatchSuccess, QueueTypeOK, BatchStatus
<1> QED BY <1>1, <1>2, TypeByRows, KeepsMoney DEF MarkBatchSuccess

LEMMA StallQueue ==
    ASSUME QueueTypeOK, TicketHolds, NEW i, MarkItemStalled(i)
    PROVE  QueueTypeOK' /\ TicketHolds'
<1>1. queue' \in Rows(lastItemId, lastBatchId) /\ SameMoney(queue, queue')
  BY QueueIsRows, StalledLemma DEF MarkItemStalled, QueueTypeOK
<1>2. DOMAIN batchTx' = DOMAIN batchTx /\ batchTx' \in [DOMAIN batchTx' -> BatchStatus]
  BY DEF MarkItemStalled, QueueTypeOK
<1> QED BY <1>1, <1>2, TypeByRows, KeepsMoney DEF MarkItemStalled

\* Deleting a batch leaves the others as they were.
LEMMA WithoutLemma ==
    ASSUME QueueTypeOK, NEW b
    PROVE  /\ DOMAIN Without(batchTx, b) = DOMAIN batchTx \ {b}
           /\ Without(batchTx, b) \in [DOMAIN batchTx \ {b} -> BatchStatus]
  BY DEF Without, QueueTypeOK

LEMMA RecoverBatchQueue ==
    ASSUME QueueTypeOK, TicketHolds, NEW b, NEW message \in BOOLEAN,
           NEW without \in BOOLEAN, RecoverFailedBatch(b, message, without)
    PROVE  QueueTypeOK' /\ TicketHolds'
<1>1. queue' \in Rows(lastItemId, lastBatchId) /\ SameMoney(queue, queue')
  BY QueueIsRows, RecoveredLemma DEF RecoverFailedBatch, QueueTypeOK
<1>2. /\ DOMAIN batchTx' \subseteq DOMAIN batchTx
      /\ batchTx' \in [DOMAIN batchTx' -> BatchStatus]
  BY WithoutLemma DEF RecoverFailedBatch
<1> QED BY <1>1, <1>2, TypeByRows, KeepsMoney DEF RecoverFailedBatch

\* The three unstall operations differ in the rows they are given.
LEMMA UnstallQueue ==
    ASSUME QueueTypeOK, TicketHolds, NEW ids, queue' = UnstalledRows(queue, ids),
           UNCHANGED <<lastItemId, batchTx, lastBatchId, ticket>>
    PROVE  QueueTypeOK' /\ TicketHolds'
<1>1. queue' \in Rows(lastItemId, lastBatchId) /\ SameMoney(queue, queue')
  BY QueueIsRows, UnstalledLemma DEF QueueTypeOK
<1>2. DOMAIN batchTx' = DOMAIN batchTx /\ batchTx' \in [DOMAIN batchTx' -> BatchStatus]
  BY DEF QueueTypeOK
<1> QED BY <1>1, <1>2, TypeByRows, KeepsMoney

LEMMA RecoverQueue ==
    ASSUME QueueTypeOK, TicketHolds, Recover
    PROVE  QueueTypeOK' /\ TicketHolds'
<1>1. queue' \in Rows(lastItemId, lastBatchId) /\ SameMoney(queue, queue')
  BY QueueIsRows, ResetLemma DEF Recover, QueueTypeOK
<1>2. /\ DOMAIN batchTx' \subseteq DOMAIN batchTx
      /\ batchTx' \in [DOMAIN batchTx' -> BatchStatus]
  BY DEF Recover, SuccessfulOnly, QueueTypeOK
<1> QED BY <1>1, <1>2, TypeByRows, KeepsMoney DEF Recover
=============================================================================
