----------------------------- MODULE MCExecutor -----------------------------
(* Executor on a few requests.  Two of them pay the same account.  And the  *)
(* budget loop of processBatch, against the closed form that Executor uses. *)
EXTENDS Executor

CONSTANTS r1, r2, r3, alice, bob

MCReceiver == [r \in Requests |-> IF r = r3 THEN bob ELSE alice]

\* The items the loop of processBatch pushes.
TakenByLoop(items) ==
    LET n       == Cardinality(DOMAIN items)
        turn[k \in 0..n] ==
            IF k = 0
            THEN LoopStart
            ELSE LoopTurn(items, turn[k - 1],
                          CHOOSE i \in DOMAIN items : Rank(DOMAIN items, i) = k - 1)
    IN  turn[n].taken

\* Bound: ids of the items of a batch, with gaps.
MaxItemId == 5

\* The loop takes what ItemsToProcess says, and NumActions counts its actions.
ASSUME BudgetLoop ==
    \A ids \in SUBSET (1..MaxItemId) :
        \A deposit \in [ids -> BOOLEAN] :
            LET items == [i \in ids |-> [has_storage_deposit |-> deposit[i]]]
            IN  /\ TakenByLoop(items) = ItemsToProcess(items)
                /\ NumActions(items) <= MaxActions
=============================================================================
