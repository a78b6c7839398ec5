CONSTANTS
    p1 = p1
    p2 = p2
    k1 = k1
    k2 = k2
    None = None
    Procs <- MCProcs
    Keys <- MCKeys
    Values <- MCValues
    Backends = {"file", "memcached"}
    Rewritable = {"file", "memcached"}
    Expirations = {1, 9}
    Skips = {FALSE}
    TicksPerMilli = 1
    TicksPerSecond = 2
    StartTime = 8
    MaxTime = 9
    MaxRows = 2
    Int32Half = 8
    MaxRelative = 2
SPECIFICATION Spec
SYMMETRY Symmetry
INVARIANT OnlyStored
CHECK_DEADLOCK FALSE
