SPECIFICATION FairSpec
CONSTANTS
    NULL = NULL
    Handlers = {h1, h2}
    Txs = {t1, t2}
    Methods = {"submit", "watch", "broadcast", "newBlock"}
    MaxBlocks = 2
    Faults = TRUE
CHECK_DEADLOCK FALSE

    
PROPERTIES
    PoolDrained
    Answered
