\* The life cycle of the README, and who stalls, where items and actions are
\* numbered alike; no merging, crash or lost answer.
CONSTANTS
    r1 = r1
    r2 = r2
    r3 = r3
    alice = alice
    bob = bob
    Requests = {r1, r2, r3}
    Accounts = {alice, bob}
    Receiver <- MCReceiver
    DepositFlags = {TRUE}
    MergeExistingAccounts = FALSE
    MaxRetries = 1
    NumKeys = 2
    BatchSize = 2
    MinQueue = 1
    MaxActions = 2
    Faults = {"signFail", "actionError", "invalidTx"}
    MaxCrashes = 0
    MaxUnstalls = 0
SPECIFICATION Spec
PROPERTIES ImplementsLifecycle OnlyTheFailedItemStalls
