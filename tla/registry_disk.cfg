SPECIFICATION Spec
CONSTANTS
    None = None
    Timeout = 1
    FlapThreshold = 1
    Recovery = 2
    Node = {n1}
    PurgeAfter = 0
    FlapWindow = 2
    MinAliveNum = 0
    MinAliveDen = 1
    Persist = TRUE
    Leaves = {}
    MaxLeaves = 0
INVARIANTS
    TypeOK
    
