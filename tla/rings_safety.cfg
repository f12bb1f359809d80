CONSTANTS
    s1 = s1
    s2 = s2
    s3 = s3
    Server = {s1, s2, s3}
    None = None
    Key = {}
    MinInner = 1
    MaxInner = 2
    MaxTemp = 1
    CoolThreshold = 0
    HeatLimit <- MCHeatLimit
    Faults = {"tripped"}
    MaxConn = 1
    Cooldown = 1
    Dwell = 1
    ColdStart = 0
    DrainTimeout = 1
    CallbackRaises = {FALSE, TRUE}
SYMMETRY Symmetry
SPECIFICATION Spec
INVARIANTS TypeOK  SnapshotsHold InnerWithinMax
PROPERTIES RotateKeepsMinimum RestsBeforeReturn ImplementsHuddle
