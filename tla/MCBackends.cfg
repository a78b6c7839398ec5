CONSTANTS
    p1 = p1
    p2 = p2
    k1 = k1
    k2 = k2
    None = None
    Procs <- MCProcs
    Keys = {k1}
    Values <- MCValues
    Backends = {"file", "redis", "memcached", "mongodb", "postgres", "s3"}
    Rewritable = {"redis", "mongodb", "postgres", "s3"}
    Expirations <- MCExpirations
    Skips = {FALSE, TRUE}
    TicksPerMilli = 1
    TicksPerSecond = 2
    StartTime = 8
    MaxTime = 11
    MaxRows = 2
    Int32Half = 8
    MaxRelative = 2
SPECIFICATION Spec
SYMMETRY Symmetry
INVARIANTS TypeOK OnlyStored
PROPERTIES EarlyDeletionIsARace ViewsProlong ImplementsPasteStore
CHECK_DEADLOCK FALSE
