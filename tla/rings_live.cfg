CONSTANTS
    s1 = s1
    s2 = s2
    s3 = s3
    Server = {s1, s2}
    None = None
    Key = {k1}
    MinInner = 1
    MaxInner = 2
    MaxTemp = 1
    CoolThreshold = 0
    HeatLimit <- MCHeatLimit
    Faults = {"down"}
    MaxConn = 1
    Cooldown = 1
    Dwell = 1
    ColdStart = 1
    DrainTimeout = 1
    CallbackRaises = {FALSE}
SPECIFICATION FairSpec
 
PROPERTIES DrainEnds UnhealthyLeaves RingRefills
