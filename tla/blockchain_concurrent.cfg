SPECIFICATION FairSpec
CONSTANTS
    b1 = b1
    b2 = b2
    c1 = c1
    w1 = w1
    t1 = t1
    u1 = u1
    u2 = u2
    Code0 = Code0
    NULL = NULL
    Builders = {b1, b2}
    Callers = {}
    Warmers = {}
    Txs <- MCTxs
    Upgrades <- MCUpgrades
    Batches <- PairBatches
    Faults = {"build", "compile"}
    MaxBuilds = 3
CHECK_DEADLOCK FALSE
INVARIANTS
    OnlyHeadsAnnounced
PROPERTIES
    HeadExtends
    HeadsAnnounced
