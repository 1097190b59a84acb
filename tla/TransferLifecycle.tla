------------------------- MODULE TransferLifecycle -------------------------
(***************************************************************************)
(* What the service promises to a client, with no queue, batch or lane in  *)
(* sight: the state diagram of the README, and exactly one payment.  Many  *)
(* requests may move at once, because they share rows and transactions.    *)
(* Payments are counted, so that a second one is a step of its own, and no *)
(* action allows it.                                                       *)
(*                                                                         *)
(* Executor implements this when nothing is merged into a row in flight,   *)
(* no answer is lost and the service does not crash; the runs that leave   *)
(* these out show which promise breaks.                                    *)
(***************************************************************************)
EXTENDS Naturals

CONSTANT Requests

VARIABLES
    status,     \* what GET /transfer/{id} answers for each request
    payments    \* how many times the receiver got the tokens of each request

vars == <<status, payments>>

States == {"none", "pending", "processing", "success", "stalled"}

TypeOK == status \in [Requests -> States] /\ payments \in [Requests -> Nat]

In(state) == {r \in Requests : status[r] = state}

PaidTimes(n) == {r \in Requests : payments[r] = n}

Move(S, state) == status' = [r \in Requests |-> IF r \in S THEN state ELSE status[r]]

Init == status = [r \in Requests |-> "none"] /\ payments = [r \in Requests |-> 0]

Accept == \E r \in In("none") : Move({r}, "pending") /\ UNCHANGED payments

Take == \E S \in SUBSET In("pending") : Move(S, "processing") /\ UNCHANGED payments

\* The chain executes a transaction: only what is in flight, and not paid yet.
Pay == \E S \in SUBSET (In("processing") \cap PaidTimes(0)) :
           /\ payments' = [r \in Requests |-> IF r \in S THEN payments[r] + 1
                                              ELSE payments[r]]
           /\ UNCHANGED status

\* Success is answered only for what has been paid, once ...
Succeed == \E S \in SUBSET (In("processing") \cap PaidTimes(1)) :
               Move(S, "success") /\ UNCHANGED payments

\* ... and only what has not been paid goes back, or is put aside.
GiveBack == \E S, T \in SUBSET (In("processing") \cap PaidTimes(0)) :
                /\ status' = [r \in Requests |-> IF r \in T THEN "stalled"
                                                 ELSE IF r \in S THEN "pending"
                                                 ELSE status[r]]
                /\ UNCHANGED payments

Unstall == \E S \in SUBSET In("stalled") : Move(S, "pending") /\ UNCHANGED payments

Next == Accept \/ Take \/ Pay \/ Succeed \/ GiveBack \/ Unstall

Spec == Init /\ [][Next]_vars
=============================================================================
