\* Crashes, lost answers and restarts.
CONSTANTS
    r1 = r1
    r2 = r2
    r3 = r3
    alice = alice
    bob = bob
    Requests = {r1, r2}
    Accounts = {alice}
    Receiver <- MCReceiver
    DepositFlags = {FALSE}
    MergeExistingAccounts = FALSE
    MaxRetries = 1
    NumKeys = 2
    BatchSize = 1
    MinQueue = 1
    MaxActions = 2
    Faults = {"network", "invalidTx", "actionError", "unknownFailure"}
    MaxCrashes = 2
    MaxUnstalls = 0
SPECIFICATION Spec
INVARIANTS LaneInv PaidInv RetriesCountPayments PaymentsWithinRetries SuccessMeansPaid NeverOrphaned ProcessingAttended StalledNotInFlight
PROPERTIES SuccessIsFinal
