CONSTANTS
    Intents = {i1, i2}
    Executors = {x1, x2}
    MaxRollbacks = 1
    o1 = o1
    o2 = o2
    Ids = {o1, o2}
    MaxExports = 2
    Batches = 1
    FetchRetries = 1
    SameId = {TRUE, FALSE}
    Envelopes = {e1, e2}
    EventRetries = 1
    MaxEventLetters = 1
    MaxReplays = 1
    MaxReconnects = 2
    MaxClicks = 1
    Links <- MCLinks
    Tabs = {t1, t2}
    NumSteps = 3
    SideEffect <- MCSideEffect
    StorageFaults = FALSE
    SlowSteps = FALSE
    MaxStarts = 4
    Publishes = {1, 2, 3}
    PayloadOf <- MCPayloadOf
    SendRetries = 1
SPECIFICATION MCSpec
INVARIANTS
    OperationsTypeOK
    ReceiptsAreTrue
    CompletedIsWhole
    InOnePlace
    OpenIsReal
    SingleRunner
    FencesHold
    
PROPERTIES
    RollbackIsFinal
    StoppedStaysStopped
    QueuedIsTried
    CancelEnds
    ConnectionSettles
    ForwardOnly
    OrphanIsReleased
CHECK_DEADLOCK FALSE
