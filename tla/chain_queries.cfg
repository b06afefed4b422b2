CONSTANTS
    t1 = t1
    t2 = t2
    Tasks = {t1}
    Permits = 1
    MaxBreaks = 1
    Fork = 1
    MaxHead = 4
    LiveHead = 3
    Capacity = 1
    Methods <- AskAnything
    Asked = {0, 1, 2, 3, 4, 5}
SPECIFICATION Spec
CHECK_DEADLOCK FALSE
INVARIANTS
    
    WatchedValueCurrent

    
