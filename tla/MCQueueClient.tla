--------------------------- MODULE MCQueueClient ---------------------------
(* QueueClient on two requests to one account and, where there is a third, *)
(* one to another account.                                                 *)
EXTENDS QueueClient

CONSTANTS r1, r2, r3, alice, bob

MCReceiver == [r \in Requests |-> IF r = r3 THEN bob ELSE alice]
=============================================================================
