CONSTANTS
    t1 = t1
    t2 = t2
    Tasks = {t1, t2}
    Permits = 1
    MaxBreaks = 1
    Fork = 1
    MaxHead = 2
    LiveHead = 1
    Capacity = 1
    Methods <- Compete
    Asked = {0}
SPECIFICATION FairSpec
CHECK_DEADLOCK FALSE
INVARIANTS
    OneConnectionPerBreak
PROPERTIES
    RequestsAnswered
