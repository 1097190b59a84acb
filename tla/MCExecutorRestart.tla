------------------------- MODULE MCExecutorRestart -------------------------
(* ExecutorRestart on a few requests to one account.                       *)
EXTENDS ExecutorRestart

CONSTANTS r1, r2, alice

MCReceiver == [r \in Requests |-> alice]
=============================================================================
