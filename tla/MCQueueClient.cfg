\* Every order of queue calls over three requests, two of them mergeable.
CONSTANTS
    r1 = r1
    r2 = r2
    r3 = r3
    alice = alice
    bob = bob
    Requests = {r1, r2, r3}
    Accounts = {alice, bob}
    Receiver <- MCReceiver
    DepositFlags = {FALSE}
    MergeExistingAccounts = TRUE
    MaxRetries = 1
    MaxBatches = 2
SPECIFICATION Spec
INVARIANTS QueueTypeOK TicketHolds
PROPERTIES BatchedAmountsFrozen BatchesStartFresh
