CONSTANTS
    LedgerOf <- MCLedgerOf
    TxOf <- MCTxOf
    Malformed = {3}
    MaxLedger = 3
    MaxSubs = 2
    PageSize = 2
    MaxPages = 2
    MaxAttempts = 2
    SmallCap = 3
    Settings <- MCSettings
    a1 = a1
    a2 = a2
    a3 = a3
    Clicks = {a1, a2}
    Amounts = {3}
    MaxKeys = 2
    HttpRetries = 1
    Webs <- MCWebs
    k1 = k1
    k2 = k2
    Keys = {k1, k2}
    Dispatches = {a1, a2, a3}
    TabOf <- MCTabOf
    Nobody = 0
    MaxRetries <- MCMaxRetries
    Capacities = {1, 2}
    Envs <- MCEnvs
    MaxSent = 4
    Submissions = {s1, s2, s3}
    Flushes = {a1, a2}
    MaxSubmits = 2
    Offlines <- MCOfflines
    Readers = {c1, c2}
    MaxAsked = 3
    MaxRequests = 3
    Caches <- MCCaches
SPECIFICATION MCSpec
INVARIANTS
    NetworkTypeOK
    NothingPassedOver
    NeverTwice
    NeverPaysTwice
    OnePayoutPerIntent
    FailureIsShown
    SubmissionsAccounted
    NothingComesBack
PROPERTIES
    NeverBackwards
    KeysKeepContract
SYMMETRY MCSymmetry
CHECK_DEADLOCK FALSE
