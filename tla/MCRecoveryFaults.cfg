CONSTANTS
    t1 = t1
    t2 = t2
    Tabs = {t1, t2}
    NumSteps = 2
    SideEffect = {1}
    StorageFaults = TRUE
    SlowSteps = TRUE
    MaxStarts = 2
SPECIFICATION Spec
INVARIANTS
    CompletedMeansDone
SYMMETRY Symmetry
CHECK_DEADLOCK FALSE
