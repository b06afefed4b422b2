SPECIFICATION FairSpec
CONSTANTS
    s1 = s1
    s2 = s2
    s3 = s3
    o1 = o1
    o2 = o2
    o3 = o3
    NULL = NULL
    Subs = {s1, s2}
    Ops = {o1}
    MaxSubscriptions = 1
    MaxOperations = 1
    Capacity = 1
    Builders = 2
    MaxBlock = 2
CHECK_DEADLOCK FALSE

    
PROPERTIES
    BlocksForwarded
    ResultsDelivered
