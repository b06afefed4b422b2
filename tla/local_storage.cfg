SPECIFICATION Spec
CONSTANTS
    k1 = k1
    k2 = k2
    a = a
    b = b
    NULL = NULL
    Keys <- MCKeys
    Values <- MCValues
    Prefixes <- MCPrefixes
    Remote <- MCRemote
    Fork = 1
    MaxBlock = 4
INVARIANTS
    HistoryAccounted
    CommittedStateStable
    ReadsAgree
PROPERTIES
    ImplementsVersionedState
