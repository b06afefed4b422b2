SPECIFICATION FairSpec
CONSTANTS
    v = v
    x = x
    y = y
    NULL = NULL
    Keys <- MCKeys
    Values = {v}
    Live <- MCLive
    Prefixes <- MCPrefixes
    ItemPrefix <- MCItemPrefix
    Covering <- MCCovering
    PageSize = 2
    Tasks = {x, y}
    Faults = TRUE
INVARIANTS
    Covered
    NoKeyMissed
PROPERTIES
    ReadsFinish
