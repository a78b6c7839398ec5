CONSTANTS
    p1 = p1
    p2 = p2
    k1 = k1
    k2 = k2
    None = None
    Procs <- MCProcs
    Keys = {k1}
    Values <- MCValues
    Backends = {"postgres"}
    Rewritable = {"postgres"}
    Expirations = {1, 3, 9}
    Skips = {FALSE, TRUE}
    TicksPerMilli = 1
    TicksPerSecond = 2
    StartTime = 8
    MaxTime = 12
    MaxRows = 2
    Int32Half = 8
    MaxRelative = 2
SPECIFICATION Spec
PROPERTY DeletesOnlyExpired
CHECK_DEADLOCK FALSE
