\* One lane, merging, operators who unstall; no crash, no lost answer.
CONSTANTS
    r1 = r1
    r2 = r2
    r3 = r3
    alice = alice
    bob = bob
    Requests = {r1, r2, r3}
    Accounts = {alice, bob}
    Receiver <- MCReceiver
    DepositFlags = {FALSE}
    MergeExistingAccounts = TRUE
    MaxRetries = 0
    NumKeys = 1
    BatchSize = 2
    MinQueue = 1
    MaxActions = 4
    Faults = {"actionError", "invalidTx", "rateLimit"}
    MaxCrashes = 0
    MaxUnstalls = 1
SPECIFICATION Spec
INVARIANTS AtMostOnce SentStayBatched StalledNotInFlight
PROPERTIES SuccessIsFinal StallsOnlyFromBatch
