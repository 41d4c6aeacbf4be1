CONSTANTS
    t1 = t1
    t2 = t2
    Tabs = {t1, t2}
    NumSteps = 3
    SideEffect <- MCSideEffect
    StorageFaults = FALSE
    SlowSteps = TRUE
    MaxStarts = 4
SPECIFICATION Spec
INVARIANTS
    SingleRunner
CHECK_DEADLOCK FALSE
