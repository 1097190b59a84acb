\* The action index is used as an item index.
CONSTANTS
    r1 = r1
    r2 = r2
    r3 = r3
    alice = alice
    bob = bob
    Requests = {r1, r2, r3}
    Accounts = {alice, bob}
    Receiver <- MCReceiver
    DepositFlags = {FALSE}
    MergeExistingAccounts = FALSE
    MaxRetries = 1
    NumKeys = 1
    BatchSize = 2
    MinQueue = 1
    MaxActions = 4
    Faults = {"actionError"}
    MaxCrashes = 0
    MaxUnstalls = 0
SPECIFICATION Spec
PROPERTIES OnlyTheFailedItemStalls
