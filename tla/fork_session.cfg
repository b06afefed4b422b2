CONSTANTS
    c1 = c1
    c2 = c2
    Commands = {c1, c2}
    Endpoints <- MCEndpoints
    Ports = 2
    Preferred = 1
    MaxBlocks = 1
SPECIFICATION Spec
CHECK_DEADLOCK FALSE
INVARIANTS
    ReportedReady
    NoOrphan
    SessionReadsOwnBlocks
