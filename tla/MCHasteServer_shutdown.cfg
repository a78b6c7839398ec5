CONSTANTS
    r1 = r1
    r2 = r2
    r3 = r3
    Main = Main
    None = None
    Requests = {r1, r2}
    Keys <- MCKeys
    Ids <- MCGeneratedKeys
    GeneratedKeys <- MCGeneratedKeys
    Chunks = {"x", "y", "z", "d"}
    Bodies <- MCBodies
    MaxLength = 2
    StaticDocs <- MCStaticDocs
    Kinds = {"get", "head", "post", "log", "page"}
    RateLimiting = TRUE
    Backends = {"file", "redis", "memcached", "mongodb", "postgres", "s3"}
    StorageFails = FALSE
SPECIFICATION FairSpec
INVARIANTS AckedIsKept
PROPERTIES ShutdownCompletes AcceptedIsAnswered
CHECK_DEADLOCK FALSE
