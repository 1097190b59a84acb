\* Two POSTs in flight over a chain that changes, a node that fails and hangs.
CONSTANTS
    r1 = r1
    r2 = r2
    r3 = r3
    p1 = p1
    p2 = p2
    alice = alice
    bob = bob
    Requests = {r1, r2, r3}
    Accounts = {alice, bob}
    Receiver <- MCReceiver
    DepositFlags = {FALSE, TRUE}
    MergeExistingAccounts = TRUE
    MaxRetries = 1
    Posts = {p1, p2}
    Body <- MCBody
    CacheTTL = 2
    Timeout = 1
    SkipStorageCheck = FALSE
    SkipAccountExistence = FALSE
    MaxTime = 5
    Volatile = {alice}
    MaxChanges = 1
    MaxDisturbances = 1
SPECIFICATION Spec
INVARIANTS TypeOK AnswersAreTrue CacheTellsTruth AnsweredInTime
PROPERTIES QueuedAsChecked RefusedForAReason
CHECK_DEADLOCK FALSE
