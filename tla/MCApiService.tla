---------------------------- MODULE MCApiService ----------------------------
(* ApiService on two POSTs: one of a transfer to each of two accounts, one  *)
(* of a single transfer to the first account.                              *)
EXTENDS ApiService

CONSTANTS r1, r2, r3, alice, bob, p1, p2

MCReceiver == [r \in Requests |-> IF r = r3 THEN bob ELSE alice]

MCBody == [p \in Posts |-> IF p = p1 THEN <<r2>> ELSE <<r1, r3>>]
=============================================================================
