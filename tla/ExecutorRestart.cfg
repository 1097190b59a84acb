\* start() and stop() in any order, two calls of start() on one queue.
CONSTANTS
    r1 = r1
    r2 = r2
    alice = alice
    Requests = {r1, r2}
    Accounts = {alice}
    Receiver <- MCReceiver
    DepositFlags = {TRUE}
    MergeExistingAccounts = FALSE
    MaxRetries = 0
    BatchSize = 1
    MinQueue = 1
    MaxActions = 2
    Faults = {"actionError", "unknownFailure"}
    NumKeys = 2
    MaxCrashes = 0
    MaxUnstalls = 0
SPECIFICATION FairRestartSpec
INVARIANTS RestartTypeOK PatientInv PatientRestartPaysOnce SuccessMeansPaid NeverOrphaned
PROPERTIES StopEndsLoops
CHECK_DEADLOCK FALSE
