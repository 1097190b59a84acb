\* Every accepted request is settled, and waiters are released, unless too few wait.
CONSTANTS
    r1 = r1
    r2 = r2
    r3 = r3
    alice = alice
    bob = bob
    Requests = {r1, r2, r3}
    Accounts = {alice, bob}
    Receiver <- MCReceiver
    DepositFlags = {TRUE, FALSE}
    MergeExistingAccounts = TRUE
    MaxRetries = 1
    NumKeys = 2
    BatchSize = 2
    MinQueue = 2
    MaxActions = 3
    Faults = {"signFail", "actionError"}
    MaxCrashes = 1
    MaxUnstalls = 0
SPECIFICATION FairSpec
PROPERTIES EverySettled WaitersReleasedOrStuck
