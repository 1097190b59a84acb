\* Two lanes over three requests; no merging, no crash, no lost answer.
CONSTANTS
    r1 = r1
    r2 = r2
    r3 = r3
    alice = alice
    bob = bob
    Requests = {r1, r2, r3}
    Accounts = {alice, bob}
    Receiver <- MCReceiver
    DepositFlags = {FALSE, TRUE}
    MergeExistingAccounts = FALSE
    MaxRetries = 1
    NumKeys = 2
    BatchSize = 2
    MinQueue = 1
    MaxActions = 3
    Faults = {"signFail", "actionError", "invalidTx", "unknownFailure"}
    MaxCrashes = 0
    MaxUnstalls = 0
SPECIFICATION Spec
INVARIANTS TypeOK SuccessMeansPaid AtMostOnce OnceInv NeverOrphaned TransactionsFit
