SPECIFICATION FairSpec
CONSTANTS
    None = None
    Timeout = 1
    FlapThreshold = 2
    Recovery = 2
    Node = {n1}
    PurgeAfter = 2
    FlapWindow = 2
    MinAliveNum = 1
    MinAliveDen = 2
    Persist = FALSE
    Leaves = {n1}
    MaxLeaves = 1
PROPERTIES
    SilentNodeNoticed
    AutoRejoin
    HealthFollows
