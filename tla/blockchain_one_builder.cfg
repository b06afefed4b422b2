SPECIFICATION Spec
CONSTANTS
    b1 = b1
    b2 = b2
    c1 = c1
    w1 = w1
    t1 = t1
    u1 = u1
    u2 = u2
    Code0 = Code0
    NULL = NULL
    Builders = {b1}
    Callers = {c1}
    Warmers = {w1}
    Txs <- MCTxs
    Upgrades <- MCUpgrades
    Batches <- UpgradeBatches
    Faults = {"call", "warmup"}
    MaxBuilds = 3
CHECK_DEADLOCK FALSE
INVARIANTS
    RuntimeFollowsHead
    BlockStateIsItsOwn
    
