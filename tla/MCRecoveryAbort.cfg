CONSTANTS
    t1 = t1
    t2 = t2
    Tabs = {t1, t2}
    NumSteps = 3
    SideEffect <- MCSideEffect
    StorageFaults = FALSE
    SlowSteps = FALSE
    MaxStarts = 4
SPECIFICATION Spec
PROPERTIES
    TerminalImmutability
CHECK_DEADLOCK FALSE
