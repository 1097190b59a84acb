\* A push merged into a row that is being signed is reported paid.
CONSTANTS
    r1 = r1
    r2 = r2
    r3 = r3
    alice = alice
    bob = bob
    Requests = {r1, r2}
    Accounts = {alice}
    Receiver <- MCReceiver
    DepositFlags = {FALSE}
    MergeExistingAccounts = TRUE
    MaxRetries = 1
    NumKeys = 1
    BatchSize = 1
    MinQueue = 1
    MaxActions = 2
    Faults = {}
    MaxCrashes = 0
    MaxUnstalls = 0
SPECIFICATION Spec
INVARIANTS SuccessMeansPaid
