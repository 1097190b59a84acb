\* A row stalled while it is in a batch is unstalled, and paid again.
CONSTANTS
    r1 = r1
    r2 = r2
    r3 = r3
    alice = alice
    bob = bob
    Requests = {r1, r2}
    Accounts = {alice}
    Receiver <- MCReceiver
    DepositFlags = {FALSE}
    MergeExistingAccounts = FALSE
    MaxRetries = 0
    NumKeys = 2
    BatchSize = 1
    MinQueue = 1
    MaxActions = 2
    Faults = {"invalidTx"}
    MaxCrashes = 0
    MaxUnstalls = 2
SPECIFICATION Spec
INVARIANTS AtMostOnce
